---- MODULE Spec2Model ----
EXTENDS Integers, Sequences, FiniteSets, TLC

(***************************************************************************)
(* kelora: a line-at-a-time log pipeline.                                  *)
(*   raw line -> Parser.parse -> Event -> level filter -> key filter       *)
(*            -> Stats.record_event -> Formatter.format -> stdout          *)
(* Text is modelled at character level: a string is a sequence of          *)
(* one-character strings, so that tokenising, case folding, coercion and   *)
(* formatting are computed, not assumed.                                   *)
(***************************************************************************)

\* ------------------------------------------------------------------ text

\* The characters of the model, in byte order (Rust compares and sorts
\* String values bytewise).
Alphabet ==
  << "\t", " ", "\"", "+", ",", "-", ".",
     "0", "1", "2", "3", "4", "5", "6", "7", "8", "9",
     ":", "<", "=", ">", "@",
     "A", "B", "C", "D", "E", "F", "G", "H", "I", "J", "K", "L", "M",
     "N", "O", "P", "Q", "R", "S", "T", "U", "V", "W", "X", "Y", "Z",
     "[", "\\", "]", "_",
     "a", "b", "c", "d", "e", "f", "g", "h", "i", "j", "k", "l", "m",
     "n", "o", "p", "q", "r", "s", "t", "u", "v", "w", "x", "y", "z",
     "{", "}" >>

Chars == { Alphabet[i] : i \in 1..Len(Alphabet) }

OrdTable == [ c \in Chars |-> CHOOSE i \in 1..Len(Alphabet) : Alphabet[i] = c ]

Ord(c) == OrdTable[c]

Digits == { "0", "1", "2", "3", "4", "5", "6", "7", "8", "9" }

UpperLetters ==
  << "A", "B", "C", "D", "E", "F", "G", "H", "I", "J", "K", "L", "M",
     "N", "O", "P", "Q", "R", "S", "T", "U", "V", "W", "X", "Y", "Z" >>

LowerLetters ==
  << "a", "b", "c", "d", "e", "f", "g", "h", "i", "j", "k", "l", "m",
     "n", "o", "p", "q", "r", "s", "t", "u", "v", "w", "x", "y", "z" >>

Letters == { UpperLetters[i] : i \in 1..26 } \cup { LowerLetters[i] : i \in 1..26 }

\* char::is_whitespace / regex \s, on the characters of the model
IsSpace(c) == c \in { " ", "\t" }

\* str::to_uppercase, char by char (every letter of the model is ASCII)
UpperTable ==
  [ c \in Chars |->
      IF \E i \in 1..26 : LowerLetters[i] = c
      THEN UpperLetters[CHOOSE i \in 1..26 : LowerLetters[i] = c]
      ELSE c ]

to_uppercase(s) == [ i \in 1..Len(s) |-> UpperTable[s[i]] ]

to_lowercase(s) ==
  [ i \in 1..Len(s) |->
      IF \E j \in 1..26 : UpperLetters[j] = s[i]
      THEN LowerLetters[CHOOSE j \in 1..26 : UpperLetters[j] = s[i]]
      ELSE s[i] ]

\* line.trim().is_empty()
TrimIsEmpty(s) == \A i \in 1..Len(s) : IsSpace(s[i])

AllDigits(s) == \A i \in 1..Len(s) : s[i] \in Digits

SetMin(S) == CHOOSE x \in S : \A y \in S : x <= y

SetMax(S) == CHOOSE x \in S : \A y \in S : x >= y

\* bytewise a < b (Ord for String)
StrLess(a, b) ==
  \/ /\ Len(a) < Len(b)
     /\ \A i \in 1..Len(a) : a[i] = b[i]
  \/ \E i \in 1..SetMin({Len(a), Len(b)}) :
       /\ Ord(a[i]) < Ord(b[i])
       /\ \A j \in 1..(i - 1) : a[j] = b[j]

\* the elements of a finite set of strings, ascending (Vec::sort)
RECURSIVE SortedSeq(_)
SortedSeq(S) ==
  IF S = {} THEN << >>
  ELSE LET m == CHOOSE x \in S : \A y \in S \ {x} : StrLess(x, y)
       IN  << m >> \o SortedSeq(S \ {m})

Zeros(n) == [ i \in 1..n |-> "0" ]

\* decimal digits without leading zeros ("0" for zero)
StripLeadingZeros(d) ==
  LET nz == { i \in 1..Len(d) : d[i] # "0" }
  IN  IF nz = {} THEN << "0" >> ELSE SubSeq(d, SetMin(nz), Len(d))

StripTrailingZeros(d) ==
  LET nz == { i \in 1..Len(d) : d[i] # "0" }
  IN  IF nz = {} THEN << >> ELSE SubSeq(d, 1, SetMax(nz))

\* a <= b for digit strings without leading zeros
DigitsLeq(a, b) ==
  \/ Len(a) < Len(b)
  \/ /\ Len(a) = Len(b)
     /\ (a = b \/ StrLess(a, b))

\* ------------------------------------------------------------ Option<T>

\* Option<T>: None is the empty sequence, Some(x) the sequence holding x
None == << >>

Some(x) == << x >>

IsSome(o) == Len(o) = 1

\* ----------------------------------------------------------- FieldValue

\* FieldValue::String / Boolean / Null
FvString(s) == [ t |-> "String", s |-> s ]

FvBoolean(b) == [ t |-> "Boolean", b |-> b ]

FvNull == [ t |-> "Null" ]

\* FieldValue::Number(f64).  An f64 is kept as its exact decimal expansion
\* (sign, integer digits, fraction digits) or as inf / NaN; rounding to 53
\* bits of mantissa is not modelled, so values are exact only up to 15
\* significant digits.
FvNumber(kind, neg, int, frac) ==
  [ t |-> "Number", kind |-> kind, neg |-> neg,
    int |-> StripLeadingZeros(int), frac |-> StripTrailingZeros(frac) ]

FvInf(neg) == FvNumber("inf", neg, << >>, << >>)

FvNaN == FvNumber("nan", FALSE, << >>, << >>)

\* ------------------------------------------------- str::parse::<i64/f64>

\* an optional leading sign, as both integer and float parsing accept it
SignSplit(tok) ==
  IF Len(tok) > 0 /\ tok[1] \in { "+", "-" }
  THEN [ neg |-> tok[1] = "-", rest |-> Tail(tok) ]
  ELSE [ neg |-> FALSE, rest |-> tok ]

\* i64::MAX = 9223372036854775807
I64MaxDigits ==
  << "9", "2", "2", "3", "3", "7", "2", "0", "3", "6",
     "8", "5", "4", "7", "7", "5", "8", "0", "7" >>

\* -i64::MIN = 9223372036854775808
I64MinDigits ==
  << "9", "2", "2", "3", "3", "7", "2", "0", "3", "6",
     "8", "5", "4", "7", "7", "5", "8", "0", "8" >>

\* value.parse::<i64>().is_ok(): sign? digit+, no overflow
IsI64(tok) ==
  LET Signed(sp) ==
        /\ Len(sp.rest) > 0
        /\ AllDigits(sp.rest)
        /\ DigitsLeq(StripLeadingZeros(sp.rest),
                     IF sp.neg THEN I64MinDigits ELSE I64MaxDigits)
  IN  Signed(SignSplit(tok))

\* int_val as f64
I64AsF64(tok) ==
  LET Value(neg, d) == FvNumber("fin", neg /\ d # << "0" >>, d, << >>)
      Signed(sp) == Value(sp.neg, StripLeadingZeros(sp.rest))
  IN  Signed(SignSplit(tok))

RECURSIVE DigitsToNat(_)
DigitsToNat(d) ==
  IF Len(d) = 0 THEN 0
  ELSE 10 * DigitsToNat(SubSeq(d, 1, Len(d) - 1)) + (Ord(d[Len(d)]) - Ord("0"))

\* the largest and smallest decimal exponents of a finite non-zero f64
\* (f64::MAX is about 1.8e308, the smallest subnormal about 4.9e-324)
F64MaxIntDigits == 309

F64MinExp == -323

\* the pieces of a decimal float literal: digit* ('.' digit*)? ([eE] sign? digit+)?
\* with at least one mantissa digit
FloatParts(body) ==
  LET Pieces(ip, fp, hasE, xs) ==
        [ ok   |-> /\ AllDigits(ip)
                   /\ AllDigits(fp)
                   /\ Len(ip) + Len(fp) > 0
                   /\ (hasE => (Len(xs.rest) > 0 /\ AllDigits(xs.rest))),
          ip   |-> ip,
          fp   |-> fp,
          hasE |-> hasE,
          eneg |-> xs.neg,
          edig |-> xs.rest ]
      Mantissa(mant, dpos, hasE, xs) ==
        Pieces(SubSeq(mant, 1, dpos - 1), SubSeq(mant, dpos + 1, Len(mant)), hasE, xs)
      Dot(mant, ds, hasE, xs) ==
        Mantissa(mant, IF ds = {} THEN Len(mant) + 1 ELSE SetMin(ds), hasE, xs)
      Split(mant, expo, hasE) ==
        Dot(mant, { i \in 1..Len(mant) : mant[i] = "." }, hasE, SignSplit(expo))
      Exp(epos) ==
        Split(SubSeq(body, 1, epos - 1), SubSeq(body, epos + 1, Len(body)),
              epos <= Len(body))
      es == { i \in 1..Len(body) : body[i] \in { "e", "E" } }
  IN  Exp(IF es = {} THEN Len(body) + 1 ELSE SetMin(es))

\* value.parse::<f64>().is_ok()
IsF64(tok) ==
  LET Body(body) ==
        \/ to_lowercase(body) \in { << "i", "n", "f" >>, << "n", "a", "n" >>,
                                     << "i", "n", "f", "i", "n", "i", "t", "y" >> }
        \/ FloatParts(body).ok
  IN  Body(SignSplit(tok).rest)

\* value.parse::<f64>().unwrap()
F64Exponent(fpts) ==
  LET edg  == StripLeadingZeros(fpts.edig)
      \* exponents beyond four digits saturate either way
      emag == IF ~fpts.hasE THEN 0
              ELSE IF Len(edg) > 4 THEN 9999 ELSE DigitsToNat(edg)
  IN  IF fpts.eneg THEN 0 - emag ELSE emag

\* the f64 of the mantissa digits `all`, p of them before the decimal point
F64Shift(neg, all, p) ==
  LET lead == Len(all) - Len(StripLeadingZeros(all))
  IN  IF StripLeadingZeros(all) = << "0" >>
      THEN FvNumber("fin", neg, << "0" >>, << >>)
      ELSE IF p - lead > F64MaxIntDigits THEN FvInf(neg)
      ELSE IF p - lead < F64MinExp
           THEN FvNumber("fin", neg, << "0" >>, << >>)
      ELSE IF p >= Len(all)
           THEN FvNumber("fin", neg, all \o Zeros(p - Len(all)), << >>)
      ELSE IF p <= 0
           THEN FvNumber("fin", neg, << "0" >>, Zeros(0 - p) \o all)
      ELSE FvNumber("fin", neg, SubSeq(all, 1, p), SubSeq(all, p + 1, Len(all)))

F64Finite(neg, fpts) ==
  F64Shift(neg, fpts.ip \o fpts.fp, Len(fpts.ip) + F64Exponent(fpts))

\* value.parse::<f64>().unwrap()
F64Value(tok) ==
  LET Named(sp, low) ==
        IF low = << "n", "a", "n" >> THEN FvNaN
        ELSE IF low \in { << "i", "n", "f" >>,
                          << "i", "n", "f", "i", "n", "i", "t", "y" >> }
             THEN FvInf(sp.neg)
        ELSE F64Finite(sp.neg, FloatParts(sp.rest))
      Signed(sp) == Named(sp, to_lowercase(sp.rest))
  IN  Signed(SignSplit(tok))

StrNull == << "n", "u", "l", "l" >>

StrTrue == << "t", "r", "u", "e" >>

StrFalse == << "f", "a", "l", "s", "e" >>

\* a coercion that takes the keywords in any case
parse_field_value_AnyCase(value) ==
  IF to_lowercase(value) = StrNull THEN FvNull
  ELSE IF to_lowercase(value) = StrTrue THEN FvBoolean(TRUE)
  ELSE IF to_lowercase(value) = StrFalse THEN FvBoolean(FALSE)
  ELSE IF IsI64(value) THEN I64AsF64(value)
  ELSE IF IsF64(value) THEN F64Value(value)
  ELSE FvString(value)

\* parse_field_value: the coercion of a logfmt value token
parse_field_value(value) ==
  IF value = StrNull THEN FvNull
  ELSE IF value = StrTrue THEN FvBoolean(TRUE)
  ELSE IF value = StrFalse THEN FvBoolean(FALSE)
  ELSE IF IsI64(value) THEN I64AsF64(value)
  ELSE IF IsF64(value) THEN F64Value(value)
  ELSE FvString(value)

\* ---------------------------------------------------------------- Event
\* src/event.rs is not part of the source tree: Event is modelled from
\* sections 3, 4.5 and 4.6 of the specification.

\* Event::new(): no core field, no fields
EmptyFields == [ k \in {} |-> FvNull ]

NewEvent == [ timestamp |-> None, level |-> None, message |-> None,
              fields |-> EmptyFields ]

\* Event::set_field: insert or overwrite
set_field(ev, key, value) ==
  [ ev EXCEPT !.fields =
      [ k \in DOMAIN ev.fields \cup { key } |->
          IF k = key THEN value ELSE ev.fields[k] ] ]

RemoveKey(fields, key) == [ k \in DOMAIN fields \ { key } |-> fields[k] ]

KeyTimestamp == << "t", "i", "m", "e", "s", "t", "a", "m", "p" >>

KeyLevel == << "l", "e", "v", "e", "l" >>

KeyMessage == << "m", "e", "s", "s", "a", "g", "e" >>

\* the alias lists of the three core slots, in priority order
TimestampAliases ==
  << << "t", "i", "m", "e", "s", "t", "a", "m", "p" >>, << "t", "s" >>, << "t", "i", "m", "e" >>, << "a", "t" >>, << "_", "t" >>, << "@", "t" >> >>

LevelAliases ==
  << << "l", "e", "v", "e", "l" >>, << "l", "o", "g", "_", "l", "e", "v", "e", "l" >>, << "l", "o", "g", "l", "e", "v", "e", "l" >>, << "l", "v", "l" >>, << "s", "e", "v", "e", "r", "i", "t", "y" >>, << "@", "l" >> >>

MessageAliases == << << "m", "e", "s", "s", "a", "g", "e" >>, << "m", "s", "g" >>, << "@", "m" >> >>

RECURSIVE NatToDigits(_)
NatToDigits(n) ==
  IF n < 10 THEN << Alphabet[Ord("0") + n] >>
  ELSE NatToDigits(n \div 10) \o << Alphabet[Ord("0") + (n % 10)] >>

\* An instant is a natural number; its text is the letter T followed by the
\* decimal digits.  This stands for the recognised timestamp formats: what
\* matters to the pipeline is that some strings parse to ordered instants
\* and others do not.
MaxInstantDigits == 4

parse_timestamp(s) ==
  IF /\ Len(s) >= 2
     /\ Len(s) <= MaxInstantDigits + 1
     /\ s[1] = "T"
     /\ AllDigits(Tail(s))
  THEN Some(DigitsToNat(Tail(s)))
  ELSE None

format_timestamp(t) == << "T" >> \o NatToDigits(t)

\* f64 Display: the decimal expansion, no exponent, no trailing ".0"
F64ToString(n) ==
  IF n.kind = "nan" THEN << "N", "a", "N" >>
  ELSE IF n.kind = "inf"
       THEN (IF n.neg THEN << "-" >> ELSE << >>) \o << "i", "n", "f" >>
  ELSE (IF n.neg THEN << "-" >> ELSE << >>) \o n.int
         \o (IF n.frac = << >> THEN << >> ELSE << "." >> \o n.frac)

\* the text of a FieldValue when it is promoted to a core slot
FieldValueAsString(v) ==
  IF v.t = "String" THEN v.s
  ELSE IF v.t = "Number" THEN F64ToString(v)
  ELSE IF v.t = "Boolean" THEN (IF v.b THEN StrTrue ELSE StrFalse)
  ELSE StrNull

\* an alias scan that keeps the last alias present instead of the first
FirstAlias_LastPresent(fields, aliases) ==
  LET hits == { i \in 1..Len(aliases) : aliases[i] \in DOMAIN fields }
  IN  IF hits = {} THEN None ELSE Some(aliases[SetMax(hits)])

\* the first alias of the list present in the field map, if any
FirstAlias(fields, aliases) ==
  LET hits == { i \in 1..Len(aliases) : aliases[i] \in DOMAIN fields }
  IN  IF hits = {} THEN None ELSE Some(aliases[SetMin(hits)])

\* Event::extract_core_fields (specification 4.5): per core slot the first
\* alias present wins and its key leaves the field map; the timestamp slot
\* is filled only when the value is a string that parses as a timestamp,
\* and an alias whose value does not parse stays an ordinary field.  A slot
\* the parser has filled itself is left alone (specification 4.4: the syslog
\* level comes from the priority, and the decoded components and the
\* message stay in the field map beside the core slots).
ExtractTimestamp(ev) ==
  LET a == FirstAlias(ev.fields, TimestampAliases)
  IN  IF IsSome(ev.timestamp) \/ ~IsSome(a) THEN ev
      ELSE LET v  == ev.fields[a[1]]
               ts == IF v.t = "String" THEN parse_timestamp(v.s) ELSE None
           IN  IF IsSome(ts)
               THEN [ ev EXCEPT !.timestamp = ts,
                                !.fields = RemoveKey(ev.fields, a[1]) ]
               ELSE ev

ExtractLevel(ev) ==
  LET a == FirstAlias(ev.fields, LevelAliases)
  IN  IF IsSome(ev.level) \/ ~IsSome(a) THEN ev
      ELSE [ ev EXCEPT !.level = Some(FieldValueAsString(ev.fields[a[1]])),
                       !.fields = RemoveKey(ev.fields, a[1]) ]

ExtractMessage(ev) ==
  LET a == FirstAlias(ev.fields, MessageAliases)
  IN  IF IsSome(ev.message) \/ ~IsSome(a) THEN ev
      ELSE [ ev EXCEPT !.message = Some(FieldValueAsString(ev.fields[a[1]])),
                       !.fields = RemoveKey(ev.fields, a[1]) ]

extract_core_fields(ev) == ExtractMessage(ExtractLevel(ExtractTimestamp(ev)))

SeqToSet(q) == { q[i] : i \in 1..Len(q) }

\* Event::filter_keys (specification 4.6): projection onto the key list; a
\* core slot is kept when its canonical name is requested
filter_keys(ev, keys) ==
  LET K == SeqToSet(keys)
  IN  [ timestamp |-> IF KeyTimestamp \in K THEN ev.timestamp ELSE None,
        level     |-> IF KeyLevel \in K THEN ev.level ELSE None,
        message   |-> IF KeyMessage \in K THEN ev.message ELSE None,
        fields    |-> [ k \in DOMAIN ev.fields \cap K |-> ev.fields[k] ] ]

\* Event::has_displayable_content (specification 4.6)
has_displayable_content(ev) ==
  \/ IsSome(ev.timestamp)
  \/ IsSome(ev.level)
  \/ IsSome(ev.message)
  \/ DOMAIN ev.fields # {}

\* -------------------------------------------------------- LogfmtParser

\* The key/value pattern of LogfmtParser::new():
\*   ([a-zA-Z_][a-zA-Z0-9_-]*)=(?:"([^"]*)"|([^\s]+))
IsKeyStart(c) == c \in Letters \cup { "_" }

IsKeyChar(c) == c \in Letters \cup Digits \cup { "_", "-" }

\* the first index >= i whose character fails the test, Len(s) + 1 if none:
\* the end of a greedy run
KeyRunEnd(s, i) ==
  LET stop == { j \in i..Len(s) : ~IsKeyChar(s[j]) }
  IN  IF stop = {} THEN Len(s) + 1 ELSE SetMin(stop)

NonSpaceRunEnd(s, i) ==
  LET stop == { j \in i..Len(s) : IsSpace(s[j]) }
  IN  IF stop = {} THEN Len(s) + 1 ELSE SetMin(stop)

\* the pattern matched with its first character at index i: the key, the
\* value (the quoted alternative first, the bare one otherwise) and the
\* index after the match
LogfmtMatchAt(s, i) ==
  LET no == [ ok |-> FALSE, key |-> << >>, value |-> << >>, next |-> i + 1 ]
      Value(ke, vs, quotes, be) ==
        IF ~(i <= Len(s) /\ IsKeyStart(s[i]) /\ ke <= Len(s) /\ s[ke] = "=")
        THEN no
        ELSE IF vs <= Len(s) /\ s[vs] = "\"" /\ quotes # {}
        THEN [ ok |-> TRUE, key |-> SubSeq(s, i, ke - 1),
               value |-> SubSeq(s, vs + 1, SetMin(quotes) - 1),
               next |-> SetMin(quotes) + 1 ]
        ELSE IF be > vs
        THEN [ ok |-> TRUE, key |-> SubSeq(s, i, ke - 1),
               value |-> SubSeq(s, vs, be - 1), next |-> be ]
        ELSE no
      Key(ke) ==
        Value(ke, ke + 1, { j \in (ke + 2)..Len(s) : s[j] = "\"" },
              NonSpaceRunEnd(s, ke + 1))
  IN  Key(KeyRunEnd(s, i))

\* captures_iter: the leftmost match from i on, then on from its end; every
\* capture is coerced and stored, a repeated key overwriting the earlier one
RECURSIVE LogfmtScan(_, _, _)
LogfmtScan(s, i, ev) ==
  LET Step(m) ==
        LogfmtScan(s, m.next, set_field(ev, m.key, parse_field_value(m.value)))
      Leftmost(starts) ==
        IF starts = {} THEN ev ELSE Step(LogfmtMatchAt(s, SetMin(starts)))
  IN  Leftmost({ j \in i..Len(s) : LogfmtMatchAt(s, j).ok })

\* Result<Event, ParseError>
ParseOk(ev) == [ ok |-> TRUE, event |-> ev, err |-> "" ]

ParseErr(kind) == [ ok |-> FALSE, event |-> NewEvent, err |-> kind ]

\* LogfmtParser::parse
LogfmtParse(line) ==
  IF TrimIsEmpty(line) THEN ParseOk(NewEvent)
  ELSE ParseOk(extract_core_fields(LogfmtScan(line, 1, NewEvent)))

\* ----------------------------------------------------------- JsonlParser

\* serde_json::from_str::<Value>, for JSON over the model's characters.
\* A parse step yields [ok, v, next]: whether a value was read at index i,
\* the value, and the index after it.
JFail == [ ok |-> FALSE, v |-> [ j |-> "Null" ], next |-> 0 ]

JOk(v, next) == [ ok |-> TRUE, v |-> v, next |-> next ]

JsonSkipWs(s, i) ==
  LET stop == { k \in i..Len(s) : ~IsSpace(s[k]) }
  IN  IF stop = {} THEN Len(s) + 1 ELSE SetMin(stop)

HasPrefixAt(s, i, p) ==
  /\ i + Len(p) - 1 <= Len(s)
  /\ SubSeq(s, i, i + Len(p) - 1) = p

\* a string body from index i (after the opening quote) to the closing
\* quote; the escapes \" \\ \/ \t are decoded, a raw control character or
\* any other escape is an error
RECURSIVE JsonStringBody(_, _, _)
JsonStringBody(s, i, acc) ==
  IF i > Len(s) THEN JFail
  ELSE IF s[i] = "\"" THEN JOk([ j |-> "String", s |-> acc ], i + 1)
  ELSE IF s[i] = "\t" THEN JFail
  ELSE IF s[i] = "\\"
       THEN IF i + 1 > Len(s) THEN JFail
            ELSE IF s[i + 1] \in { "\"", "\\" }
                 THEN JsonStringBody(s, i + 2, Append(acc, s[i + 1]))
            ELSE IF s[i + 1] = "t"
                 THEN JsonStringBody(s, i + 2, Append(acc, "\t"))
            ELSE JFail
  ELSE JsonStringBody(s, i + 1, Append(acc, s[i]))

\* a number: -? (0 | [1-9][0-9]*) (. [0-9]+)? ([eE] [+-]? [0-9]+)?, finite
JsonNumberAt(s, i) ==
  LET Check(tok, body, fpts, n, e) ==
        IF /\ fpts.ok
           /\ Len(fpts.ip) > 0
           /\ (fpts.ip[1] = "0" => Len(fpts.ip) = 1)
           /\ ((Len(body) > Len(fpts.ip) /\ body[Len(fpts.ip) + 1] = ".")
                 => Len(fpts.fp) > 0)
           /\ n.kind = "fin"
        THEN JOk([ j |-> "Number", n |-> n, raw |-> tok ], e)
        ELSE JFail
      Body(tok, body, e) == Check(tok, body, FloatParts(body), F64Value(tok), e)
      Token(tok, e) ==
        Body(tok, IF Len(tok) > 0 /\ tok[1] = "-" THEN Tail(tok) ELSE tok, e)
      End(e) == Token(SubSeq(s, i, e - 1), e)
      stop == { k \in i..Len(s) : s[k] \notin Digits \cup { "-", "+", ".", "e", "E" } }
  IN  End(IF stop = {} THEN Len(s) + 1 ELSE SetMin(stop))

RECURSIVE JsonValueAt(_, _)
RECURSIVE JsonMembers(_, _, _)
RECURSIVE JsonItems(_, _, _)

\* the members of an object from index i (at a key), after those in acc; a
\* repeated key keeps its last value
JsonMembers(s, i, acc) ==
  LET Rest(n, a2) ==
        IF n > Len(s) THEN JFail
        ELSE IF s[n] = "}" THEN JOk([ j |-> "Object", map |-> a2 ], n + 1)
        ELSE IF s[n] = "," THEN JsonMembers(s, JsonSkipWs(s, n + 1), a2)
        ELSE JFail
      Value(key, v) ==
        IF ~v.ok THEN JFail
        ELSE Rest(JsonSkipWs(s, v.next),
                  [ x \in DOMAIN acc \cup { key } |->
                      IF x = key THEN v.v ELSE acc[x] ])
      Colon(k, c) ==
        IF ~(c <= Len(s) /\ s[c] = ":") THEN JFail
        ELSE Value(k.v.s, JsonValueAt(s, JsonSkipWs(s, c + 1)))
      Key(k) == IF ~k.ok THEN JFail ELSE Colon(k, JsonSkipWs(s, k.next))
  IN  IF ~(i <= Len(s) /\ s[i] = "\"") THEN JFail
      ELSE Key(JsonStringBody(s, i + 1, << >>))

JsonItems(s, i, acc) ==
  LET Rest(v, n) ==
        IF n > Len(s) THEN JFail
        ELSE IF s[n] = "]"
             THEN JOk([ j |-> "Array", items |-> Append(acc, v.v) ], n + 1)
        ELSE IF s[n] = ","
             THEN JsonItems(s, JsonSkipWs(s, n + 1), Append(acc, v.v))
        ELSE JFail
      Item(v) == IF ~v.ok THEN JFail ELSE Rest(v, JsonSkipWs(s, v.next))
  IN  Item(JsonValueAt(s, i))

JsonValueAt(s, i) ==
  LET Object(n) ==
        IF n <= Len(s) /\ s[n] = "}"
        THEN JOk([ j |-> "Object", map |-> EmptyFields ], n + 1)
        ELSE JsonMembers(s, n, EmptyFields)
      Array(n) ==
        IF n <= Len(s) /\ s[n] = "]"
        THEN JOk([ j |-> "Array", items |-> << >> ], n + 1)
        ELSE JsonItems(s, n, << >>)
  IN  IF i > Len(s) THEN JFail
      ELSE IF s[i] = "{" THEN Object(JsonSkipWs(s, i + 1))
      ELSE IF s[i] = "[" THEN Array(JsonSkipWs(s, i + 1))
      ELSE IF s[i] = "\"" THEN JsonStringBody(s, i + 1, << >>)
      ELSE IF HasPrefixAt(s, i, StrTrue) THEN JOk([ j |-> "Bool", b |-> TRUE ], i + 4)
      ELSE IF HasPrefixAt(s, i, StrFalse) THEN JOk([ j |-> "Bool", b |-> FALSE ], i + 5)
      ELSE IF HasPrefixAt(s, i, StrNull) THEN JOk([ j |-> "Null" ], i + 4)
      ELSE IF s[i] \in Digits \cup { "-" } THEN JsonNumberAt(s, i)
      ELSE JFail

\* serde_json::from_str: one value, nothing but white space around it
serde_json_from_str(line) ==
  LET Whole(v) ==
        IF v.ok /\ JsonSkipWs(line, v.next) > Len(line) THEN v ELSE JFail
  IN  Whole(JsonValueAt(line, JsonSkipWs(line, 1)))

\* escape of a string inside JSON text
RECURSIVE JsonEscape(_)
JsonEscape(s) ==
  IF Len(s) = 0 THEN << >>
  ELSE (IF s[1] \in { "\"", "\\" } THEN << "\\", s[1] >>
        ELSE IF s[1] = "\t" THEN << "\\", "t" >>
        ELSE << s[1] >>) \o JsonEscape(Tail(s))

JsonQuote(s) == << "\"" >> \o JsonEscape(s) \o << "\"" >>

\* Value::to_string of a nested value: compact text, object keys ascending;
\* a number keeps the text it was read from
RECURSIVE JsonToString(_)
RECURSIVE JsonJoin(_, _)
JsonJoin(parts, sep) ==
  IF Len(parts) = 0 THEN << >>
  ELSE IF Len(parts) = 1 THEN parts[1]
  ELSE parts[1] \o sep \o JsonJoin(Tail(parts), sep)

JsonToString(v) ==
  LET Object(ks) ==
        << "{" >>
          \o JsonJoin([ i \in 1..Len(ks) |->
                          JsonQuote(ks[i]) \o << ":" >> \o JsonToString(v.map[ks[i]]) ],
                      << "," >>)
          \o << "}" >>
  IN  IF v.j = "String" THEN JsonQuote(v.s)
      ELSE IF v.j = "Number" THEN v.raw
      ELSE IF v.j = "Bool" THEN (IF v.b THEN StrTrue ELSE StrFalse)
      ELSE IF v.j = "Null" THEN StrNull
      ELSE IF v.j = "Array"
           THEN << "[" >>
                  \o JsonJoin([ i \in 1..Len(v.items) |-> JsonToString(v.items[i]) ],
                              << "," >>)
                  \o << "]" >>
      ELSE Object(SortedSeq(DOMAIN v.map))

\* the FieldValue of one top-level member
JsonFieldValue(v) ==
  IF v.j = "String" THEN FvString(v.s)
  ELSE IF v.j = "Number" THEN v.n
  ELSE IF v.j = "Bool" THEN FvBoolean(v.b)
  ELSE IF v.j = "Null" THEN FvNull
  ELSE FvString(JsonToString(v))

\* JsonlParser::parse
JsonlParse(line) ==
  LET Root(jv) ==
        IF ~jv.ok THEN ParseErr("JsonError")
        ELSE IF jv.v.j # "Object" THEN ParseErr("InvalidFormat")
        ELSE ParseOk(extract_core_fields(
               [ NewEvent EXCEPT !.fields =
                   [ k \in DOMAIN jv.v.map |-> JsonFieldValue(jv.v.map[k]) ] ]))
  IN  Root(serde_json_from_str(line))

\* ---------------------------------------------------------- SyslogParser

\* The pattern of SyslogParser::new():
\*   ^(?:<(\d+)>)?(\w{3}\s+\d{1,2}\s+\d{2}:\d{2}:\d{2})\s+(\S+)\s+
\*    ([^:\[]+)(?:\[(\d+)\])?\s*:\s*(.*)$
\* Every repetition in it is followed by something it cannot itself match,
\* or gives the same end however it backtracks, so the match is computed
\* left to right with greedy runs.
IsWordChar(c) == c \in Letters \cup Digits \cup { "_" }

SpaceRunEnd(s, i) ==
  LET stop == { j \in i..Len(s) : ~IsSpace(s[j]) }
  IN  IF stop = {} THEN Len(s) + 1 ELSE SetMin(stop)

DigitRunEnd(s, i) ==
  LET stop == { j \in i..Len(s) : s[j] \notin Digits }
  IN  IF stop = {} THEN Len(s) + 1 ELSE SetMin(stop)

\* the end of a run of characters other than ':' and '['
ProcRunEnd(s, i) ==
  LET stop == { j \in i..Len(s) : s[j] \in { ":", "[" } }
  IN  IF stop = {} THEN Len(s) + 1 ELSE SetMin(stop)

CharAt(s, i) == IF i >= 1 /\ i <= Len(s) THEN s[i] ELSE ""

SyslogNoMatch ==
  [ ok |-> FALSE, i |-> 0, pri |-> None, ts |-> << >>, host |-> << >>,
    proc |-> << >>, pid |-> None, msg |-> << >> ]

\* The match is carried from piece to piece of the pattern as a cursor:
\* whether the line still matches, the index of the next character, and the
\* captures made so far.
SyslogStart ==
  [ ok |-> TRUE, i |-> 1, pri |-> None, ts |-> << >>, host |-> << >>,
    proc |-> << >>, pid |-> None, msg |-> << >> ]

\* ^(?:<(\d+)>)?
SyslogPriAt(s) ==
  LET Pri(de) ==
        IF CharAt(s, 1) # "<" THEN SyslogStart
        ELSE IF de > 2 /\ CharAt(s, de) = ">"
             THEN [ SyslogStart EXCEPT !.pri = Some(SubSeq(s, 2, de - 1)), !.i = de + 1 ]
        ELSE SyslogNoMatch
  IN  Pri(DigitRunEnd(s, 2))

\* (\w{3}\s+\d{1,2}\s+\d{2}:\d{2}:\d{2}) from index i: the index after it,
\* 0 when it does not match
SyslogTimestampEnd(s, i) ==
  LET Clock(a, b, c) ==
        IF /\ \A k \in i..(i + 2) : CharAt(s, k) # "" /\ IsWordChar(s[k])
           /\ a > i + 3
           /\ b - a \in { 1, 2 }
           /\ c > b
           /\ \A k \in { c, c + 1, c + 3, c + 4, c + 6, c + 7 } : CharAt(s, k) \in Digits
           /\ CharAt(s, c + 2) = ":"
           /\ CharAt(s, c + 5) = ":"
        THEN c + 8
        ELSE 0
      Day(a, b) == Clock(a, b, SpaceRunEnd(s, b))
      Month(a) == Day(a, DigitRunEnd(s, a))
  IN  Month(SpaceRunEnd(s, i + 3))

\* (\w{3}\s+\d{1,2}\s+\d{2}:\d{2}:\d{2})
SyslogTimestampAt(s, c) ==
  LET Ts(te) ==
        IF te = 0 THEN SyslogNoMatch
        ELSE [ c EXCEPT !.ts = SubSeq(s, c.i, te - 1), !.i = te ]
  IN  IF ~c.ok THEN c ELSE Ts(SyslogTimestampEnd(s, c.i))

\* \s+(\S+)
SyslogHostAt(s, c) ==
  LET Host(hs, he) ==
        IF hs > c.i /\ he > hs
        THEN [ c EXCEPT !.host = SubSeq(s, hs, he - 1), !.i = he ]
        ELSE SyslogNoMatch
      Spaces(hs) == Host(hs, NonSpaceRunEnd(s, hs))
  IN  IF ~c.ok THEN c ELSE Spaces(SpaceRunEnd(s, c.i))

\* \s+([^:\[]+) : the white space gives back one character to the process
\* name when ':' or '[' follows it at once
SyslogProcessAt(s, c) ==
  LET Proc(w, ps, pe) ==
        IF w > c.i /\ pe > ps
        THEN [ c EXCEPT !.proc = SubSeq(s, ps, pe - 1), !.i = pe ]
        ELSE SyslogNoMatch
      Name(w, ps) == Proc(w, ps, ProcRunEnd(s, ps))
      Spaces(w) ==
        Name(w, IF CharAt(s, w) \in { ":", "[" } /\ w - c.i >= 2 THEN w - 1 ELSE w)
  IN  IF ~c.ok THEN c ELSE Spaces(SpaceRunEnd(s, c.i))

\* (?:\[(\d+)\])?
SyslogPidAt(s, c) ==
  LET Pid(de) ==
        IF CharAt(s, c.i) = "[" /\ de > c.i + 1 /\ CharAt(s, de) = "]"
        THEN [ c EXCEPT !.pid = Some(SubSeq(s, c.i + 1, de - 1)), !.i = de + 1 ]
        ELSE c
  IN  IF ~c.ok THEN c ELSE Pid(DigitRunEnd(s, c.i + 1))

\* \s*:\s*(.*)$
SyslogMessageAt(s, c) ==
  LET Msg(q) ==
        IF CharAt(s, q) = ":"
        THEN [ c EXCEPT !.msg = SubSeq(s, SpaceRunEnd(s, q + 1), Len(s)),
                        !.i = Len(s) + 1 ]
        ELSE SyslogNoMatch
  IN  IF ~c.ok THEN c ELSE Msg(SpaceRunEnd(s, c.i))

\* the whole pattern against the line
SyslogMatch(s) ==
  SyslogMessageAt(s,
    SyslogPidAt(s,
      SyslogProcessAt(s,
        SyslogHostAt(s,
          SyslogTimestampAt(s, SyslogPriAt(s))))))

\* u32::MAX = 4294967295
U32MaxDigits == << "4", "2", "9", "4", "9", "6", "7", "2", "9", "5" >>

\* priority.as_str().parse::<u32>().is_ok()
IsU32(d) == Len(d) > 0 /\ AllDigits(d) /\ DigitsLeq(StripLeadingZeros(d), U32MaxDigits)

\* pri >> 3 and pri & 7, on the decimal digits of pri (a u32 need not fit
\* signed 32-bit integers): long division by 8
RECURSIVE DivMod8(_, _, _)
DivMod8(d, i, st) ==
  IF i > Len(d) THEN st
  ELSE LET cur == 10 * st.r + (Ord(d[i]) - Ord("0"))
       IN  DivMod8(d, i + 1,
                   [ q |-> Append(st.q, Alphabet[Ord("0") + (cur \div 8)]),
                     r |-> cur % 8 ])

SeverityNames ==
  << << "E", "M", "E", "R", "G", "E", "N", "C", "Y" >>, << "A", "L", "E", "R", "T" >>, << "C", "R", "I", "T", "I", "C", "A", "L" >>, << "E", "R", "R", "O", "R" >>,
     << "W", "A", "R", "N", "I", "N", "G" >>, << "N", "O", "T", "I", "C", "E" >>, << "I", "N", "F", "O" >>, << "D", "E", "B", "U", "G" >> >>

KeyPriority == << "p", "r", "i", "o", "r", "i", "t", "y" >>

KeyFacility == << "f", "a", "c", "i", "l", "i", "t", "y" >>

KeySeverity == << "s", "e", "v", "e", "r", "i", "t", "y" >>

KeyHostname == << "h", "o", "s", "t", "n", "a", "m", "e" >>

KeyProcess == << "p", "r", "o", "c", "e", "s", "s" >>

KeyPid == << "p", "i", "d" >>

\* a priority branch whose table of level names starts at severity 1: the
\* level of severity s is the name of severity s + 1
SyslogPriority_TableOffByOne(ev, pri) ==
  LET Set(dm) ==
        [ set_field(
            set_field(
              set_field(ev, KeyPriority, FvNumber("fin", FALSE, pri[1], << >>)),
              KeyFacility, FvNumber("fin", FALSE, dm.q, << >>)),
            KeySeverity, FvNumber("fin", FALSE, << Alphabet[Ord("0") + dm.r] >>, << >>))
          EXCEPT !.level = Some(SeverityNames[((dm.r + 1) % 8) + 1]) ]
  IN  IF ~IsSome(pri) \/ ~IsU32(pri[1]) THEN ev
      ELSE Set(DivMod8(pri[1], 1, [ q |-> << >>, r |-> 0 ]))

\* the priority branch of SyslogParser::parse
SyslogPriority(ev, pri) ==
  LET Set(dm) ==
        [ set_field(
            set_field(
              set_field(ev, KeyPriority, FvNumber("fin", FALSE, pri[1], << >>)),
              KeyFacility, FvNumber("fin", FALSE, dm.q, << >>)),
            KeySeverity, FvNumber("fin", FALSE, << Alphabet[Ord("0") + dm.r] >>, << >>))
          EXCEPT !.level = Some(SeverityNames[dm.r + 1]) ]
  IN  IF ~IsSome(pri) \/ ~IsU32(pri[1]) THEN ev
      ELSE Set(DivMod8(pri[1], 1, [ q |-> << >>, r |-> 0 ]))

\* a parser that rejects the line the pattern does not match
SyslogUnmatched_Fails(line) == ParseErr("no match")

\* SyslogParser::parse, the pattern does not match: the whole line is the
\* message
SyslogUnmatched(line) ==
  ParseOk(extract_core_fields(
    set_field([ NewEvent EXCEPT !.message = Some(line) ], KeyMessage, FvString(line))))

\* SyslogParser::parse
SyslogParse(line) ==
  LET Message(ev, msg) ==
        set_field([ ev EXCEPT !.message = Some(msg) ], KeyMessage, FvString(msg))
      Pid(ev, pid) ==
        IF IsSome(pid) THEN set_field(ev, KeyPid, F64Value(pid[1])) ELSE ev
      Matched(m) ==
        ParseOk(extract_core_fields(
          Message(
            Pid(set_field(
                  set_field(
                    set_field(SyslogPriority(NewEvent, m.pri),
                              KeyTimestamp, FvString(m.ts)),
                    KeyHostname, FvString(m.host)),
                  KeyProcess, FvString(m.proc)),
                m.pid),
            m.msg)))
      Parsed(m) == IF m.ok THEN Matched(m) ELSE SyslogUnmatched(line)
  IN  Parsed(SyslogMatch(line))

\* ------------------------------------------------------------ Formatters

\* escape_quotes: backslashes doubled first, then quotes escaped
RECURSIVE escape_quotes(_)
escape_quotes(s) ==
  IF Len(s) = 0 THEN << >>
  ELSE (IF s[1] = "\\" THEN << "\\", "\\" >>
        ELSE IF s[1] = "\"" THEN << "\\", "\"" >>
        ELSE << s[1] >>) \o escape_quotes(Tail(s))

Quoted(s) == << "\"" >> \o s \o << "\"" >>

\* `*n as i64` then Display: the cast truncates, saturates at the i64
\* bounds and sends NaN to 0
F64AsI64ToString(n) ==
  IF n.kind = "nan" THEN << "0" >>
  ELSE IF n.kind = "inf" \/ ~DigitsLeq(n.int, IF n.neg THEN I64MinDigits ELSE I64MaxDigits)
       THEN (IF n.neg THEN << "-" >> \o I64MinDigits ELSE I64MaxDigits)
  ELSE (IF n.neg /\ n.int # << "0" >> THEN << "-" >> ELSE << >>) \o n.int

\* n.fract() == 0.0 (false for inf and NaN, whose fract() is NaN)
F64IsIntegral(n) == n.kind = "fin" /\ n.frac = << >>

\* the text of one remaining field in the default format
DefaultFormatValue(v) ==
  IF v.t = "String" THEN Quoted(escape_quotes(v.s))
  ELSE IF v.t = "Number"
       THEN (IF F64IsIntegral(v) THEN F64AsI64ToString(v) ELSE F64ToString(v))
  ELSE IF v.t = "Boolean" THEN (IF v.b THEN StrTrue ELSE StrFalse)
  ELSE StrNull

\* the parts of a default-format line, in order: the core fields, then the
\* remaining fields by ascending key; each part is [key, text]
DefaultFormatParts(ev) ==
  LET ks == SortedSeq(DOMAIN ev.fields)
  IN  (IF IsSome(ev.timestamp)
       THEN << [ key |-> KeyTimestamp, text |-> Quoted(format_timestamp(ev.timestamp[1])) ] >>
       ELSE << >>)
      \o (IF IsSome(ev.level)
          THEN << [ key |-> KeyLevel, text |-> Quoted(ev.level[1]) ] >>
          ELSE << >>)
      \o (IF IsSome(ev.message)
          THEN << [ key |-> KeyMessage, text |-> Quoted(escape_quotes(ev.message[1])) ] >>
          ELSE << >>)
      \o [ i \in 1..Len(ks) |->
             [ key |-> ks[i], text |-> DefaultFormatValue(ev.fields[ks[i]]) ] ]

RECURSIVE JoinParts(_, _, _)
JoinParts(parts, eq, sep) ==
  IF Len(parts) = 0 THEN << >>
  ELSE parts[1].key \o eq \o parts[1].text
         \o (IF Len(parts) = 1 THEN << >> ELSE sep \o JoinParts(Tail(parts), eq, sep))

\* DefaultFormatter::format
DefaultFormat(ev) == JoinParts(DefaultFormatParts(ev), << "=" >>, << " " >>)

\* the text of a FieldValue as a JSON value; a number that is not finite
\* becomes 0, a finite one keeps a fraction part (42 is written 42.0)
JsonFormatValue(v) ==
  IF v.t = "String" THEN JsonQuote(v.s)
  ELSE IF v.t = "Number"
       THEN (IF v.kind # "fin" THEN << "0" >>
             ELSE (IF v.neg THEN << "-" >> ELSE << >>) \o v.int \o << "." >>
                    \o (IF v.frac = << >> THEN << "0" >> ELSE v.frac))
  ELSE IF v.t = "Boolean" THEN (IF v.b THEN StrTrue ELSE StrFalse)
  ELSE StrNull

\* the members of a JSON-format line: the core fields are inserted first and
\* a remaining field of the same name replaces them; the order of the
\* members in the text is not modelled (they are written by ascending key)
JsonFormatParts(ev) ==
  LET core == (IF IsSome(ev.timestamp) THEN { KeyTimestamp } ELSE {})
                \cup (IF IsSome(ev.level) THEN { KeyLevel } ELSE {})
                \cup (IF IsSome(ev.message) THEN { KeyMessage } ELSE {})
      ks   == SortedSeq(core \cup DOMAIN ev.fields)
      txt(k) ==
        IF k \in DOMAIN ev.fields THEN JsonFormatValue(ev.fields[k])
        ELSE IF k = KeyTimestamp THEN JsonQuote(format_timestamp(ev.timestamp[1]))
        ELSE IF k = KeyLevel THEN JsonQuote(ev.level[1])
        ELSE JsonQuote(ev.message[1])
  IN  [ i \in 1..Len(ks) |-> [ key |-> JsonQuote(ks[i]), text |-> txt(ks[i]) ] ]

\* JsonlFormatter::format
JsonlFormat(ev) ==
  << "{" >> \o JoinParts(JsonFormatParts(ev), << ":" >>, << "," >>) \o << "}" >>

\* create_formatter + Formatter::format
FormatEvent(output_format, ev) ==
  IF output_format = "Default" THEN DefaultFormat(ev) ELSE JsonlFormat(ev)

\* create_parser + LogParser::parse
ParseLine(input_format, line) ==
  IF input_format = "Logfmt" THEN LogfmtParse(line)
  ELSE IF input_format = "Jsonl" THEN JsonlParse(line)
  ELSE SyslogParse(line)

\* ------------------------------------------------------------ the inputs

\* bounds of the model
MaxSources == 2
MaxLines == 2
MaxRunLines == 3
MaxTokLen == 3
MaxWideLen == 4

InputFormats == { "Logfmt", "Jsonl", "Syslog" }
OutputFormats == { "Default", "Jsonl" }

BlankLines == { << >>, << " ", "\t" >> }

LogfmtLines ==
  { << "l", "e", "v", "e", "l", "=", "e", "r", "r", "o", "r", " ", "m", "s", "g", "=", "\"", "a", " ", "b", "\"", " ", "t", "s", "=", "T", "2" >>,
    << "l", "v", "l", "=", "I", "N", "F", "O", " ", "h", "o", "s", "t", "=", "h", " ", "n", "=", "4", "2" >>,
    << "h", "o", "s", "t", "=", "h", " ", "p", "o", "r", "t", "=", "5" >>,
    << "h", "e", "l", "l", "o", " ", "w", "o", "r", "l", "d" >> }

JsonlLines ==
  { << "{", "\"", "l", "e", "v", "e", "l", "\"", ":", "\"", "e", "r", "r", "o", "r", "\"", ",", "\"", "m", "s", "g", "\"", ":", "\"", "a", "\"", ",", "\"", "t", "s", "\"", ":", "\"", "T", "2", "\"", "}" >>,
    << "{", "\"", "l", "e", "v", "e", "l", "\"", ":", "\"", "I", "n", "f", "o", "\"", ",", "\"", "m", "e", "s", "s", "a", "g", "e", "\"", ":", "\"", "b", "\"", ",", "\"", "t", "s", "\"", ":", "\"", "T", "1", "\"", ",", "\"", "n", "\"", ":", "4", "2", "}" >>,
    << "{", "\"", "h", "o", "s", "t", "\"", ":", "\"", "h", "\"", ",", "\"", "p", "o", "r", "t", "\"", ":", "5", "}" >>,
    << "{", "}" >>,
    << "{", "\"", "l", "e", "v", "e", "l", "\"", ":", "\"", "e", "r", "r", "o", "r", "\"" >>,
    << "[", "1", "]" >> }

SyslogLines ==
  { << "<", "3", "4", ">", "O", "c", "t", " ", "1", "1", " ", "2", "2", ":", "1", "4", ":", "1", "5", " ", "m", "y", "m", "a", "c", "h", "i", "n", "e", " ", "s", "u", ":", " ", "t", "e", "s", "t" >>,
    << "O", "c", "t", " ", " ", "1", " ", "0", "0", ":", "0", "0", ":", "0", "1", " ", "h", " ", "p", "[", "1", "2", "]", ":", " ", "m" >>,
    << "n", "o", "t", " ", "a", " ", "s", "y", "s", "l", "o", "g", " ", "l", "i", "n", "e" >> }

\* the lines the inputs of a run are drawn from
CuratedLines(f) ==
  BlankLines \cup
    (IF f = "Logfmt" THEN LogfmtLines
     ELSE IF f = "Jsonl" THEN JsonlLines
     ELSE SyslogLines)

\* all strings of at most n characters over the characters of A
RECURSIVE StringsUpTo(_, _)
StringsUpTo(A, n) ==
  IF n = 0 THEN { << >> }
  ELSE LET S == StringsUpTo(A, n - 1)
       IN  S \cup { Append(s, c) : s \in { t \in S : Len(t) = n - 1 }, c \in A }

\* a wider set of logfmt lines: every string of a few characters that the
\* key/value pattern tells apart, and tokens of each form of value between
\* other text
LogfmtChars == { "a", "1", "=", "\"", " " }

WideLogfmtLines ==
  StringsUpTo(LogfmtChars, MaxWideLen)
    \cup { pre \o k \o << "=" >> \o v \o post :
             pre \in { << >>, << "x", " " >>, << "b", "=", "2", " " >> },
             k \in { << "a" >>, << "_", "a", "-", "1" >>, << "1", "a" >>, << "m", "s", "g" >> },
             v \in { << >>, << "1" >>, << "\"", "\"" >>, << "\"", "x", " ", "y", "\"" >>, << "\"", "x", " ", "y" >>, << "x", "\"", "y" >> },
             post \in { << >>, << " ", "z" >>, << " ", "a", "=", "3" >> } }

\* a wider set of syslog lines: the pieces of the grammar, each present,
\* absent or malformed, and every short string over the separators
WideSyslogLines ==
  StringsUpTo({ "a", ":", " " }, MaxWideLen - 1)
    \cup { pri \o ts \o host \o sep \o proc \o pid \o colon \o msg :
             pri \in { << >>, << "<", "3", "4", ">" >>, << "<", ">" >>, << "<", "4", "2", "9", "4", "9", "6", "7", "2", "9", "6", ">" >> },
             ts \in { << "O", "c", "t", " ", "1", "1", " ", "2", "2", ":", "1", "4", ":", "1", "5" >>, << "O", "c", "t", " ", " ", "1", " ", "0", "0", ":", "0", "0", ":", "0", "1" >>, << "O", "c", "t", " ", "1", "1", " ", "2", ":", "1", "4", ":", "1", "5" >> },
             host \in { << " ", "h" >>, << >> },
             sep \in { << " " >>, << " ", " " >> },
             proc \in { << "s", "u" >>, << "p", " ", "q" >> },
             pid \in { << >>, << "[", "1", "2", "]" >>, << "[", "x", "]" >> },
             colon \in { << ":" >>, << >> },
             msg \in { << " ", "m" >>, << >> } }

\* the lines the one-line runs are given
WideLines(f) ==
  CuratedLines(f) \cup
    (IF f = "Logfmt" THEN WideLogfmtLines
     ELSE IF f = "Syslog" THEN WideSyslogLines
     ELSE {})

\* the tokens given to parse_field_value: the spellings the classification
\* tells apart, and every short string over the characters of numbers and
\* keywords
CoerceChars == { "0", "1", "-", "+", ".", "e", "E", "n", "a", " " }

NamedTokens ==
  { << "n", "u", "l", "l" >>, << "t", "r", "u", "e" >>, << "f", "a", "l", "s", "e" >>, << "N", "u", "l", "l" >>, << "N", "U", "L", "L" >>, << "T", "r", "u", "e" >>, << "T", "R", "U", "E" >>,
    << "F", "a", "l", "s", "e" >>, << "h", "e", "l", "l", "o" >>, << "n", "a", "n" >>, << "N", "a", "N" >>, << "i", "n", "f" >>, << "-", "i", "n", "f" >>, << "+", "I", "n", "f" >>,
    << "i", "n", "f", "i", "n", "i", "t", "y" >>, << "-", "I", "n", "f", "i", "n", "i", "t", "y" >>, << "i", "n", "f", "i", "n", "i", "t" >>, << "4", "2" >>, << "-", "4", "2" >>, << "+", "4", "2" >>,
    << "0", "4", "2" >>, << "4", "2", ".", "5" >>, << "4", "2", ".", "5", "0" >>, << "-", "0", ".", "0" >>, << "1", "e", "1", "0" >>, << "1", ".", "5", "E", "-", "3" >>, << "0", "x", "1", "0" >>,
    << "1", "_", "0", "0", "0" >>, << "1", "2", "a", "b" >>, << "n", "u", "l", "l", "s" >>, << " ", "n", "u", "l", "l" >>, << "t", "r", "u", "e", " " >>,
    << "9", "2", "2", "3", "3", "7", "2", "0", "3", "6", "8", "5", "4", "7", "7", "5", "8", "0", "7" >>, << "9", "2", "2", "3", "3", "7", "2", "0", "3", "6", "8", "5", "4", "7", "7", "5", "8", "0", "8" >>,
    << "-", "9", "2", "2", "3", "3", "7", "2", "0", "3", "6", "8", "5", "4", "7", "7", "5", "8", "0", "8" >>, << "-", "9", "2", "2", "3", "3", "7", "2", "0", "3", "6", "8", "5", "4", "7", "7", "5", "8", "0", "9" >>,
    << "1", "e", "4", "0", "0" >>, << "-", "1", "e", "4", "0", "0" >>, << "1", "e", "-", "4", "0", "0" >> }

CoerceTokens == NamedTokens \cup StringsUpTo(CoerceChars, MaxTokLen)

\* --level values and -k/-c selections of the runs
LevelArgs == { << >>, << << "w", "a", "r", "n" >>, << "E", "r", "r", "o", "r" >> >> }
KeySelections ==
  { [ keys |-> << >>, common |-> FALSE ],
    [ keys |-> << << "l", "e", "v", "e", "l" >>, << "h", "o", "s", "t" >> >>, common |-> FALSE ],
    [ keys |-> << << "m", "s", "g" >>, << "p", "o", "r", "t" >> >>, common |-> FALSE ],
    [ keys |-> << >>, common |-> TRUE ],
    [ keys |-> << << "l", "e", "v", "e", "l" >>, << "h", "o", "s", "t" >> >>, common |-> TRUE ] }

\* the command lines of the runs: every combination of the filters under the
\* default output, the default filters under the other outputs, and two
\* command lines with both filters
DefaultCli(f) ==
  [ input_format |-> f, output_format |-> "Default", keys |-> << >>,
    levels |-> << >>, stats_only |-> FALSE, stats |-> FALSE, debug |-> FALSE,
    common |-> FALSE ]

FilterClis(f) ==
  { [ DefaultCli(f) EXCEPT !.levels = l, !.keys = k.keys, !.common = k.common ] :
      l \in LevelArgs, k \in KeySelections }

OutputClis(f) ==
  { [ DefaultCli(f) EXCEPT !.output_format = "Jsonl" ],
    [ DefaultCli(f) EXCEPT !.stats_only = TRUE ],
    [ DefaultCli(f) EXCEPT !.stats = TRUE, !.debug = TRUE ] }

\* both filters at once, for logfmt input: with the statistics only, and with
\* a key list that does not name the level the level filter asks for
BothFilterClis(f) ==
  IF f # "Logfmt" THEN { }
  ELSE
  { [ DefaultCli(f) EXCEPT !.stats_only = TRUE, !.stats = TRUE,
                           !.levels = << << "w", "a", "r", "n" >>, << "E", "r", "r", "o", "r" >> >>,
                           !.keys = << << "l", "e", "v", "e", "l" >>, << "h", "o", "s", "t" >> >> ],
    [ DefaultCli(f) EXCEPT !.levels = << << "E", "R", "R", "O", "R" >> >>,
                           !.keys = << << "m", "e", "s", "s", "a", "g", "e" >> >> ] }

Clis ==
  UNION { FilterClis(f) \cup OutputClis(f) \cup BothFilterClis(f) : f \in InputFormats }

\* a named file: whether File::open succeeds, and its number of lines
FileShapes ==
  { [ openable |-> TRUE, nlines |-> n ] : n \in 0..MaxLines }
    \cup { [ openable |-> FALSE, nlines |-> 0 ] }

RECURSIVE SeqsUpTo(_, _)
SeqsUpTo(S, n) ==
  IF n = 0 THEN { << >> }
  ELSE LET T == SeqsUpTo(S, n - 1)
       IN  T \cup { Append(t, x) : t \in { u \in T : Len(u) = n - 1 }, x \in S }

\* the number of lines of a sequence of files or readers
RECURSIVE SumLines(_)
SumLines(rs) == IF Len(rs) = 0 THEN 0 ELSE rs[1].nlines + SumLines(Tail(rs))

\* the inputs of a run: standard input, or up to MaxSources named files
\* holding up to MaxRunLines lines together
SourceShapes ==
  { [ files |-> << >>, stdin |-> n ] : n \in 0..MaxLines }
    \cup { [ files |-> fs, stdin |-> 0 ] :
             fs \in { gs \in SeqsUpTo(FileShapes, MaxSources) \ { << >> } :
                        SumLines(gs) <= MaxRunLines } }

\* ------------------------------------------------------------- the run

VARIABLES
  cli,       \* the parsed command line (Cli)
  sources,   \* the environment: the named files and standard input
  lineset,   \* which set of lines the inputs draw from
  pc,        \* where main is: "start", "loop", "stats", "done", "failed"
  readers,   \* the opened readers, in order
  ridx,      \* the reader process_reader is running on
  pos,       \* lines read from that reader so far
  stats,     \* Stats
  stdout,    \* the lines written to standard output: [src, idx] of their input line
  pipe,      \* standard output: "open" or "broken"
  report,    \* the statistics printed to standard error, if any
  diag,      \* parse-error diagnostics printed to standard error
  err,       \* why main returned Err, "" if it did not
  trace,     \* history: the reads, writes and loop exits, in order
  last,      \* history: what was done with the last line read
  given,     \* history: the lines read so far, counted by kind
  fin,       \* the token given to parse_field_value
  fout       \* its result

vars ==
  << cli, sources, lineset, pc, readers, ridx, pos, stats, stdout, pipe,
     report, diag, err, trace, last, given, fin, fout >>

\* Stats::new()
NewStats ==
  [ lines_seen |-> 0, events_shown |-> 0, parse_errors |-> 0, filtered_out |-> 0,
    start_time |-> None, end_time |-> None, levels_seen |-> [ k \in {} |-> 0 ] ]

\* a recording whose end_time is the timestamp of the last event recorded
record_event_EndIsLatest(st, ev) ==
  LET s1 == [ st EXCEPT !.events_shown = @ + 1 ]
      s2 == IF IsSome(ev.timestamp)
            THEN LET ts == ev.timestamp[1]
                 IN  [ s1 EXCEPT
                         !.start_time =
                           IF ~IsSome(s1.start_time) \/ ts < s1.start_time[1]
                           THEN Some(ts) ELSE @,
                         !.end_time = Some(ts) ]
            ELSE s1
  IN  IF IsSome(ev.level)
      THEN LET l == ev.level[1]
           IN  [ s2 EXCEPT !.levels_seen =
                   [ k \in DOMAIN @ \cup { l } |->
                       IF k = l THEN (IF l \in DOMAIN @ THEN @[l] ELSE 0) + 1 ELSE @[k] ] ]
      ELSE s2

\* Stats::record_event
record_event(st, ev) ==
  LET s1 == [ st EXCEPT !.events_shown = @ + 1 ]
      s2 == IF IsSome(ev.timestamp)
            THEN LET ts == ev.timestamp[1]
                 IN  [ s1 EXCEPT
                         !.start_time =
                           IF ~IsSome(s1.start_time) \/ ts < s1.start_time[1]
                           THEN Some(ts) ELSE @,
                         !.end_time =
                           IF ~IsSome(s1.end_time) \/ ts > s1.end_time[1]
                           THEN Some(ts) ELSE @ ]
            ELSE s1
  IN  IF IsSome(ev.level)
      THEN LET l == ev.level[1]
           IN  [ s2 EXCEPT !.levels_seen =
                   [ k \in DOMAIN @ \cup { l } |->
                       IF k = l THEN (IF l \in DOMAIN @ THEN @[l] ELSE 0) + 1 ELSE @[k] ] ]
      ELSE s2

\* prepare_levels_filter
prepare_levels_filter(levels) ==
  IF Len(levels) = 0 THEN None
  ELSE Some([ i \in 1..Len(levels) |-> to_uppercase(levels[i]) ])

\* a key filter in which the -k list comes before -c
prepare_keys_filter_KeysFirst(c) ==
  IF Len(c.keys) > 0 THEN Some(c.keys)
  ELSE IF c.common THEN Some(<< KeyTimestamp, KeyLevel, KeyMessage >>)
  ELSE None

\* prepare_keys_filter
prepare_keys_filter(c) ==
  IF c.common THEN Some(<< KeyTimestamp, KeyLevel, KeyMessage >>)
  ELSE IF Len(c.keys) > 0 THEN Some(c.keys)
  ELSE None

\* a level filter that compares the event's level as it is written
LevelFilterDrops_CaseSensitive(levels_filter, ev) ==
  /\ IsSome(levels_filter)
  /\ \/ ~IsSome(ev.level)
     \/ ev.level[1] \notin SeqToSet(levels_filter[1])

\* the level filter of process_reader: whether the event is dropped
LevelFilterDrops(levels_filter, ev) ==
  /\ IsSome(levels_filter)
  /\ \/ ~IsSome(ev.level)
     \/ to_uppercase(ev.level[1]) \notin SeqToSet(levels_filter[1])

\* the key filter of process_reader: the event after projection
ApplyKeysFilter(keys_filter, ev) ==
  IF IsSome(keys_filter) THEN filter_keys(ev, keys_filter[1]) ELSE ev

\* a loop that drops the event without content whether or not a key list
\* is given
KeyFilterDrops_WithoutKeyList(keys_filter, projected) ==
  ~has_displayable_content(projected)

\* a key filter that keeps the events the projection has emptied
KeyFilterDrops_KeepsEmpty(keys_filter, projected) == FALSE

\* ... and whether the projected event is dropped
KeyFilterDrops(keys_filter, projected) ==
  IsSome(keys_filter) /\ ~has_displayable_content(projected)

NotParsed == [ ok |-> FALSE, event |-> NewEvent, err |-> "not parsed" ]

\* a loop that projects the event before the level filter looks at it
HandleLine_ProjectsFirst(c, line) ==
  LET Levelled(r, kf, pe) ==
        IF LevelFilterDrops(prepare_levels_filter(c.levels), pe)
        THEN [ disp |-> "level_filtered", parsed |-> r, event |-> pe, text |-> None ]
        ELSE IF KeyFilterDrops(kf, pe)
        THEN [ disp |-> "key_filtered", parsed |-> r, event |-> pe, text |-> None ]
        ELSE [ disp |-> "recorded", parsed |-> r, event |-> pe,
               text |-> IF c.stats_only THEN None
                        ELSE Some(FormatEvent(c.output_format, pe)) ]
      Keys(r, kf) == Levelled(r, kf, ApplyKeysFilter(kf, r.event))
      Parsed(r) ==
        IF ~r.ok
        THEN [ disp |-> "parse_error", parsed |-> r, event |-> NewEvent, text |-> None ]
        ELSE Keys(r, prepare_keys_filter(c))
  IN  IF TrimIsEmpty(line)
      THEN [ disp |-> "blank", parsed |-> NotParsed, event |-> NewEvent, text |-> None ]
      ELSE Parsed(ParseLine(c.input_format, line))

\* What the body of the loop of process_reader decides for one line, up to
\* the write: the disposition, the parser's result and the event that is
\* recorded and formatted.
HandleLine(c, line) ==
  LET Projected(r, kf, pe) ==
        IF KeyFilterDrops(kf, pe)
        THEN [ disp |-> "key_filtered", parsed |-> r, event |-> pe, text |-> None ]
        ELSE [ disp |-> "recorded", parsed |-> r, event |-> pe,
               text |-> IF c.stats_only THEN None
                        ELSE Some(FormatEvent(c.output_format, pe)) ]
      Keys(r, kf) == Projected(r, kf, ApplyKeysFilter(kf, r.event))
      Parsed(r) ==
        IF ~r.ok
        THEN [ disp |-> "parse_error", parsed |-> r, event |-> NewEvent, text |-> None ]
        ELSE IF LevelFilterDrops(prepare_levels_filter(c.levels), r.event)
        THEN [ disp |-> "level_filtered", parsed |-> r, event |-> r.event,
               text |-> None ]
        ELSE Keys(r, prepare_keys_filter(c))
  IN  IF TrimIsEmpty(line)
      THEN [ disp |-> "blank", parsed |-> NotParsed, event |-> NewEvent, text |-> None ]
      ELSE Parsed(ParseLine(c.input_format, line))

\* HandleLine depends on the command line and the line only: its values over
\* the command lines and lines of the runs, computed once
Handled ==
  [ c \in Clis |->
      [ l \in CuratedLines(c.input_format) |-> HandleLine(c, l) ] @@ << >> ] @@ << >>

HandledLine(c, line) ==
  IF line \in CuratedLines(c.input_format) THEN Handled[c][line]
  ELSE HandleLine(c, line)

\* What the environment gave the run, told apart by the parser alone: a
\* blank line, a line the parser of the format rejects ("bad"), or a line
\* it accepts ("good")
ParsesOk ==
  [ f \in InputFormats |->
      [ l \in CuratedLines(f) |-> ParseLine(f, l).ok ] @@ << >> ] @@ << >>

LineKind(f, line) ==
  IF TrimIsEmpty(line) THEN "blank"
  ELSE IF line \in CuratedLines(f)
       THEN (IF ParsesOk[f][line] THEN "good" ELSE "bad")
  ELSE IF ParseLine(f, line).ok THEN "good" ELSE "bad"

\* the state process_reader works on
RunState ==
  [ pc |-> pc, ridx |-> ridx, pos |-> pos, stats |-> stats, stdout |-> stdout,
    pipe |-> pipe, diag |-> diag, err |-> err, trace |-> trace, last |-> last ]

\* process_reader returned Ok: main goes to the next reader, or on to the
\* statistics
LeaveReader(rs, nreaders) ==
  IF rs.ridx < nreaders
  THEN [ rs EXCEPT !.ridx = @ + 1, !.pos = 0 ]
  ELSE [ rs EXCEPT !.pc = "stats" ]

\* a write whose broken pipe is noted and the loop goes on with the next line
WriteLine_BrokenPipeGoesOn(rs, nreaders, tag, w) ==
  LET Written(r1) ==
        IF w = "Ok" THEN [ r1 EXCEPT !.stdout = Append(@, tag) ]
        ELSE IF w = "BrokenPipe" THEN [ r1 EXCEPT !.pipe = "broken" ]
        ELSE [ r1 EXCEPT !.pc = "failed", !.err = "write" ]
  IN  Written([ rs EXCEPT !.trace =
                  Append(@, [ op |-> "write", src |-> tag.src, idx |-> tag.idx,
                              res |-> w ]) ])

\* writeln!(io::stdout(), ...) with outcome w, and what process_reader does
\* with the result
WriteLine(rs, nreaders, tag, w) ==
  LET Written(r1) ==
        IF w = "Ok" THEN [ r1 EXCEPT !.stdout = Append(@, tag) ]
        ELSE IF w = "BrokenPipe"
             THEN LeaveReader([ r1 EXCEPT !.pipe = "broken" ], nreaders)
        ELSE [ r1 EXCEPT !.pc = "failed", !.err = "write" ]
  IN  Written([ rs EXCEPT !.trace =
                  Append(@, [ op |-> "write", src |-> tag.src, idx |-> tag.idx,
                              res |-> w ]) ])

\* a skip that counts the whitespace-only line as filtered out
SkipLine_BlankFiltered(rs, c, disp) ==
  IF disp = "parse_error"
  THEN [ rs EXCEPT !.stats.parse_errors = @ + 1,
                   !.diag = IF c.debug THEN @ + 1 ELSE @ ]
  ELSE [ rs EXCEPT !.stats.filtered_out = @ + 1 ]

\* a skip that returns the error of a line that does not parse
SkipLine_ParseErrorFails(rs, c, disp) ==
  IF disp = "blank" THEN rs
  ELSE IF disp = "parse_error"
       THEN [ rs EXCEPT !.stats.parse_errors = @ + 1,
                        !.pc = "failed",
                        !.err = "parse" ]
  ELSE [ rs EXCEPT !.stats.filtered_out = @ + 1 ]

\* a skip that counts a line that does not parse as filtered out as well
SkipLine_ParseErrorFiltered(rs, c, disp) ==
  IF disp = "blank" THEN rs
  ELSE IF disp = "parse_error"
       THEN [ rs EXCEPT !.stats.parse_errors = @ + 1,
                        !.stats.filtered_out = @ + 1,
                        !.diag = IF c.debug THEN @ + 1 ELSE @ ]
  ELSE [ rs EXCEPT !.stats.filtered_out = @ + 1 ]

\* the rest of an iteration of the loop of process_reader, after the line is
\* read and counted: the line is skipped (blank, not parsed, or filtered
\* out) ...
SkipLine(rs, c, disp) ==
  IF disp = "blank" THEN rs
  ELSE IF disp = "parse_error"
       THEN [ rs EXCEPT !.stats.parse_errors = @ + 1,
                        !.diag = IF c.debug THEN @ + 1 ELSE @ ]
  ELSE [ rs EXCEPT !.stats.filtered_out = @ + 1 ]

\* a loop that writes the line first and records the event only once the
\* write has gone well
ShowLine_RecordsAfterWrite(rs, c, nreaders, ev, tag, w) ==
  IF c.stats_only THEN [ rs EXCEPT !.stats = record_event(@, ev) ]
  ELSE IF w = "Ok"
       THEN [ WriteLine(rs, nreaders, tag, w) EXCEPT !.stats = record_event(@, ev) ]
  ELSE WriteLine(rs, nreaders, tag, w)

\* a loop that, when only the statistics are wanted, skips the recording
\* together with the write
ShowLine_StatsOnlySkipsRecord(rs, c, nreaders, ev, tag, w) ==
  IF c.stats_only THEN rs
  ELSE WriteLine([ rs EXCEPT !.stats = record_event(@, ev) ], nreaders, tag, w)

\* ... or is recorded and, unless only the statistics are wanted, written
ShowLine(rs, c, nreaders, ev, tag, w) ==
  LET Recorded(r1) ==
        IF c.stats_only THEN r1 ELSE WriteLine(r1, nreaders, tag, w)
  IN  Recorded([ rs EXCEPT !.stats = record_event(@, ev) ])

\* one iteration of the loop of process_reader: the line is read, handled
\* and, if an event is to be shown, written with outcome w
LineStep(rs, c, nreaders, line, w) ==
  LET Handle(h, r0, tag) ==
        IF h.disp = "recorded" THEN ShowLine(r0, c, nreaders, h.event, tag, w)
        ELSE SkipLine(r0, c, h.disp)
      Read(h, tag) ==
        Handle(h,
               [ rs EXCEPT
                   !.pos = @ + 1,
                   !.stats.lines_seen = @ + 1,
                   !.trace = Append(@, [ op |-> "read", src |-> tag.src,
                                          idx |-> tag.idx, res |-> "" ]),
                   !.last = [ src |-> tag.src, idx |-> tag.idx, line |-> line,
                              disp |-> h.disp, parsed |-> h.parsed, event |-> h.event,
                              text |-> h.text,
                              wrote |-> IF IsSome(h.text) THEN w ELSE "" ] ],
               tag)
  IN  Read(HandledLine(c, line), [ src |-> rs.ridx, idx |-> rs.pos + 1 ])

\* the results a write to standard output can have
WriteOutcomes(p) ==
  IF p = "broken" THEN { "BrokenPipe" } ELSE { "Ok", "BrokenPipe", "Other" }

\* ----------------------------------------------------------- the history

\* the level filter of the claim: the event is retained when no level is
\* asked for, or when it has a level that equals one of the names asked for
\* once both are put in upper case
LevelRetained(levels, ev) ==
  \/ Len(levels) = 0
  \/ /\ IsSome(ev.level)
     /\ \E i \in 1..Len(levels) : to_uppercase(ev.level[1]) = to_uppercase(levels[i])

\* the key list K of the claim: the three core names under -c, the -k list
\* otherwise
ProjectionKeys ==
  IF cli.common THEN { KeyTimestamp, KeyLevel, KeyMessage } ELSE SeqToSet(cli.keys)

\* the keys an event exposes: the names of its core slots that are set, and
\* the keys of its fields
KeysOf(ev) ==
  (IF IsSome(ev.timestamp) THEN { KeyTimestamp } ELSE {})
    \cup (IF IsSome(ev.level) THEN { KeyLevel } ELSE {})
    \cup (IF IsSome(ev.message) THEN { KeyMessage } ELSE {})
    \cup DOMAIN ev.fields

\* the event a line contributes to the statistics, if any: the line is not
\* blank, the parser accepts it, the level filter retains its event and the
\* key list, when there is one, names at least one of its keys
KeptLine(line, r) ==
  /\ ~TrimIsEmpty(line)
  /\ r.ok
  /\ LevelRetained(cli.levels, r.event)
  /\ (cli.common \/ Len(cli.keys) > 0) => KeysOf(r.event) \cap ProjectionKeys # {}

\* a core slot of a retained event as the statistics see it: the slot is
\* projected away when a key list is given that does not name it
KeptSlot(key, slot) ==
  IF (cli.common \/ Len(cli.keys) > 0) /\ key \notin ProjectionKeys THEN None
  ELSE slot

\* nothing read yet
NoneGiven ==
  [ blank |-> 0, bad |-> 0, good |-> 0, kept |-> 0, levels |-> << >>,
    times |-> {} ]

\* the history after one more line is read: the lines are counted by kind
\* (blank, rejected by the parser, accepted), the retained events are
\* counted, and their levels and timestamps are collected; r is what the
\* parser alone makes of the line
GivenLine(g, line, kind, r) ==
  LET Count(lv, ts) ==
        [ g EXCEPT ![kind] = @ + 1,
                   !.kept = @ + 1,
                   !.levels = IF IsSome(lv)
                              THEN [ k \in DOMAIN @ \cup { lv[1] } |->
                                       IF k = lv[1]
                                       THEN (IF k \in DOMAIN @ THEN @[k] ELSE 0) + 1
                                       ELSE @[k] ]
                              ELSE @,
                   !.times = IF IsSome(ts) THEN @ \cup { ts[1] } ELSE @ ]
  IN  IF KeptLine(line, r)
      THEN Count(KeptSlot(KeyLevel, r.event.level),
                 KeptSlot(KeyTimestamp, r.event.timestamp))
      ELSE [ g EXCEPT ![kind] = @ + 1 ]

\* ------------------------------------------------------------ the start

InitRest ==
  /\ readers = << >>
  /\ ridx = 0
  /\ pos = 0
  /\ stats = NewStats
  /\ stdout = << >>
  /\ pipe = "open"
  /\ report = None
  /\ diag = 0
  /\ err = ""
  /\ trace = << >>
  /\ last = [ src |-> 0, idx |-> 0, line |-> << >>, disp |-> "none", parsed |-> NotParsed,
             event |-> NewEvent, text |-> None, wrote |-> "" ]
  /\ given = NoneGiven
  /\ fout = FvNull

InitRun ==
  /\ pc = "start"
  /\ fin = << >>
  /\ InitRest

Init ==
  /\ cli \in Clis
  /\ sources \in SourceShapes
  /\ lineset = "curated"
  /\ InitRun

\* the lines a reader can deliver
InputLines ==
  IF lineset = "curated" THEN CuratedLines(cli.input_format)
  ELSE WideLines(cli.input_format)

\* the one-line runs over the wider sets of lines
InitLine ==
  /\ cli \in { DefaultCli("Logfmt"), DefaultCli("Syslog") }
  /\ sources = [ files |-> << >>, stdin |-> 1 ]
  /\ lineset = "wide"
  /\ InitRun

\* parse_field_value on its own
InitCoerce ==
  /\ cli = DefaultCli("Logfmt")
  /\ sources = [ files |-> << >>, stdin |-> 0 ]
  /\ lineset = "curated"
  /\ pc = "coerce"
  /\ fin \in CoerceTokens
  /\ InitRest

\* ----------------------------------------------------------- the actions

SetRun(rs) ==
  /\ pc' = rs.pc
  /\ ridx' = rs.ridx
  /\ pos' = rs.pos
  /\ stats' = rs.stats
  /\ stdout' = rs.stdout
  /\ pipe' = rs.pipe
  /\ diag' = rs.diag
  /\ err' = rs.err
  /\ trace' = rs.trace
  /\ last' = rs.last

\* a collect that leaves out the files that cannot be opened
OpenReaders_SkipsUnopenable(files) ==
  [ ok |-> TRUE, bad |-> 0,
    readers |-> [ i \in 1..Len(files) |->
                    [ name |-> "file",
                      nlines |-> IF files[i].openable THEN files[i].nlines ELSE 0 ] ] ]

\* main: cli.files.iter().map(open_input_file).collect::<Result<Vec<_>>>():
\* the readers of all the files, or the error of the first file that cannot
\* be opened
OpenReaders(files) ==
  IF \E i \in 1..Len(files) : ~files[i].openable
  THEN [ ok |-> FALSE, bad |-> SetMin({ i \in 1..Len(files) : ~files[i].openable }),
         readers |-> << >> ]
  ELSE [ ok |-> TRUE, bad |-> 0,
         readers |-> [ i \in 1..Len(files) |->
                         [ name |-> "file", nlines |-> files[i].nlines ] ] ]

\* main: the readers are opened, all of them, before any is read; the first
\* file that cannot be opened ends the run with its error
OpenInputs ==
  LET Opened(o) ==
        IF o.ok
        THEN /\ readers' = o.readers
             /\ pc' = "loop"
             /\ ridx' = 1
             /\ UNCHANGED << err, trace >>
        ELSE /\ readers' = << >>
             /\ pc' = "failed"
             /\ err' = "open"
             /\ trace' = Append(trace, [ op |-> "open_failed", src |-> o.bad,
                                         idx |-> 0, res |-> "" ])
             /\ UNCHANGED ridx
  IN  /\ pc = "start"
      /\ IF sources.files = << >>
         THEN /\ readers' = << [ name |-> "stdin", nlines |-> sources.stdin ] >>
              /\ pc' = "loop"
              /\ ridx' = 1
              /\ UNCHANGED << err, trace >>
         ELSE Opened(OpenReaders(sources.files))
      /\ UNCHANGED << cli, sources, lineset, pos, stats, stdout, pipe, report, diag,
                      last, given, fin, fout >>

\* process_reader: one iteration of the loop over reader.lines()
ProcessLine ==
  /\ pc = "loop"
  /\ pos < readers[ridx].nlines
  /\ \E line \in InputLines, w \in WriteOutcomes(pipe) :
       /\ SetRun(LineStep(RunState, cli, Len(readers), line, w))
       /\ given' = GivenLine(given, line, LineKind(cli.input_format, line),
                             HandledLine(DefaultCli(cli.input_format), line).parsed)
  /\ UNCHANGED << cli, sources, lineset, readers, report, fin, fout >>

\* process_reader: reading the line fails, the error is returned
ReadFail ==
  /\ pc = "loop"
  /\ pos < readers[ridx].nlines
  /\ pc' = "failed"
  /\ err' = "read"
  /\ trace' = Append(trace, [ op |-> "read_failed", src |-> ridx, idx |-> pos + 1,
                              res |-> "" ])
  /\ UNCHANGED << cli, sources, lineset, readers, ridx, pos, stats, stdout, pipe,
                  report, diag, last, given, fin, fout >>

\* a loop that may also return before the reader is exhausted
EndOfReader_BeforeTheEnd ==
  /\ pc = "loop"
  /\ pos <= readers[ridx].nlines
  /\ SetRun(LeaveReader([ RunState EXCEPT !.trace =
                            Append(@, [ op |-> "eof", src |-> ridx, idx |-> pos,
                                        res |-> "" ]) ],
                        Len(readers)))
  /\ UNCHANGED << cli, sources, lineset, readers, report, given, fin, fout >>

\* process_reader: the reader is exhausted, Ok(()) is returned
EndOfReader ==
  /\ pc = "loop"
  /\ pos = readers[ridx].nlines
  /\ SetRun(LeaveReader([ RunState EXCEPT !.trace =
                            Append(@, [ op |-> "eof", src |-> ridx, idx |-> pos,
                                        res |-> "" ]) ],
                        Len(readers)))
  /\ UNCHANGED << cli, sources, lineset, readers, report, given, fin, fout >>

\* main: the statistics are printed if asked for, and Ok(()) is returned
PrintStats ==
  /\ pc = "stats"
  /\ report' = IF cli.stats_only \/ cli.stats THEN Some(stats) ELSE None
  /\ pc' = "done"
  /\ UNCHANGED << cli, sources, lineset, readers, ridx, pos, stats, stdout, pipe,
                  diag, err, trace, last, given, fin, fout >>

Next ==
  \/ OpenInputs
  \/ ProcessLine
  \/ ReadFail
  \/ EndOfReader
  \/ PrintStats

Spec == Init /\ [][Next]_vars

SpecLine == InitLine /\ [][Next]_vars

\* parse_field_value(fin)
CoerceStep ==
  /\ pc = "coerce"
  /\ fout' = parse_field_value(fin)
  /\ pc' = "coerced"
  /\ UNCHANGED << cli, sources, lineset, readers, ridx, pos, stats, stdout, pipe,
                  report, diag, err, trace, last, given, fin >>

SpecCoerce == InitCoerce /\ [][CoerceStep]_vars

\* ------------------------------------------------------------ the claims

\* C1: under JSON-Lines parsing, reading a line that is not valid JSON, or
\* whose root is not an object, adds 1 to lines_seen and 1 to parse_errors
\* and changes nothing else: no write is attempted, events_shown,
\* filtered_out, the level histogram, the time range, the output and the
\* pipe are as before (with --debug one diagnostic is printed), and the loop
\* stays on the same reader, ready for the next line, so that later lines are
\* handled as if the line had not been there; the run does not fail on it.
C1_BadJsonLineOnlyCounts ==
  [][ (cli.input_format = "Jsonl" /\ given'.bad = given.bad + 1)
        => /\ stats' = [ stats EXCEPT !.lines_seen = @ + 1, !.parse_errors = @ + 1 ]
           /\ stdout' = stdout
           /\ pipe' = pipe
           /\ trace' = Append(trace, [ op |-> "read", src |-> ridx, idx |-> pos + 1,
                                       res |-> "" ])
           /\ last'.disp = "parse_error"
           /\ last'.text = None
           /\ pc = "loop" /\ pc' = "loop"
           /\ ridx' = ridx
           /\ pos' = pos + 1
           /\ diag' = diag + (IF cli.debug THEN 1 ELSE 0)
           /\ report' = report
           /\ err' = "" ]_vars

\* a run that read a rejected JSON line first and then wrote the event of
\* the valid line after it, and ended well
C1_Witness ==
  /\ cli.input_format = "Jsonl"
  /\ pc = "done"
  /\ err = ""
  /\ given.blank = 0
  /\ given.bad = 1
  /\ given.good = 1
  /\ stats.parse_errors = 1
  /\ stats.events_shown = 1
  /\ last.disp = "recorded"
  /\ last.wrote = "Ok"
  /\ stdout = << [ src |-> 1, idx |-> 2 ] >>

\* the positions of the trace holding a write that failed with a broken pipe
BrokenWrites ==
  { i \in 1..Len(trace) : trace[i].op = "write" /\ trace[i].res = "BrokenPipe" }

\* no step is possible only when main has returned
RunEnds == pc \in { "done", "failed" } \/ ENABLED Next

\* C2 as stated: once a write to standard output has failed with a broken
\* pipe, no write is attempted any more, for the rest of the current source
\* and for every later source.
C2_NoWriteAfterBrokenPipe ==
  \A i \in BrokenWrites :
    \A j \in (i + 1)..Len(trace) : trace[j].op # "write"

\* C2, amended: once a write has failed with a broken pipe, nothing more is
\* read or written for the source whose line was being written, and nothing
\* more reaches standard output; each later source is still read, and the
\* first event shown of each is counted and its write attempted, failing
\* again with a broken pipe.  The run does not fail for the broken pipe: it
\* goes on to the statistics, which are printed if asked for, and ends well
\* unless reading a later source fails.
C2_BrokenPipeEndsCurrentSource ==
  /\ \A i \in BrokenWrites :
       /\ \A j \in (i + 1)..Len(trace) :
            /\ trace[j].src # trace[i].src
            /\ trace[j].op = "write" => trace[j].res = "BrokenPipe"
       /\ \A j \in BrokenWrites : j # i => trace[j].src # trace[i].src
  /\ pipe = "broken" <=> BrokenWrites # {}
  /\ pipe = "broken" =>
       /\ err \in { "", "read" }
       /\ pc = "failed" <=> err = "read"
       /\ RunEnds
       /\ pc = "done" => report = IF cli.stats THEN Some(stats) ELSE None
       /\ stats.events_shown > Len(stdout)

\* a run over two sources, printing statistics: the first write of each
\* source failed with a broken pipe, and the statistics were printed
C2_Witness ==
  /\ pc = "done"
  /\ cli.stats
  /\ report = Some(stats)
  /\ pipe = "broken"
  /\ Len(readers) = 2
  /\ stdout = << >>
  /\ stats.events_shown = 2
  /\ \E i, j \in BrokenWrites : trace[i].src = 1 /\ trace[j].src = 2

\* the positions of the trace holding the read of a line
ReadsAt == { i \in 1..Len(trace) : trace[i].op = "read" }

IsOkWrite(e) == e.op = "write" /\ e.res = "Ok"

\* the lines whose events reached standard output, in the order written
OkWrites ==
  LET ws == SelectSeq(trace, IsOkWrite)
  IN  [ i \in 1..Len(ws) |-> [ src |-> ws[i].src, idx |-> ws[i].idx ] ]

\* C3 as stated, the part on sources: when a line of a source is read, every
\* line of every source before it has been read.
C3_AllLinesBeforeNextSource ==
  \A j \in ReadsAt :
    \A k \in 1..(trace[j].src - 1) :
      \A n \in 1..readers[k].nlines :
        \E i \in 1..(j - 1) :
          trace[i].op = "read" /\ trace[i].src = k /\ trace[i].idx = n

\* C3, amended: the output of a line is written right after the line is read
\* and before anything else is read, at most once per line, so that standard
\* output holds the shown lines in the order of the input; the lines of a
\* source are read in order, the sources in the order given, never
\* interleaved; and a source is left for the next one only at its end or
\* when a write of one of its lines failed with a broken pipe, in which case
\* its remaining lines are never read.
C3_OutputOrderIsInputOrder ==
  /\ \A i \in 1..Len(trace) :
       trace[i].op = "write" =>
         /\ i > 1
         /\ trace[i - 1].op = "read"
         /\ trace[i - 1].src = trace[i].src
         /\ trace[i - 1].idx = trace[i].idx
  /\ \A i, j \in ReadsAt :
       i < j => \/ trace[i].src < trace[j].src
                \/ trace[i].src = trace[j].src /\ trace[i].idx < trace[j].idx
  /\ \A j \in ReadsAt :
       /\ trace[j].src \in 1..Len(readers)
       /\ trace[j].idx \in 1..readers[trace[j].src].nlines
       /\ trace[j].idx > 1 =>
            \E i \in ReadsAt :
              i < j /\ trace[i].src = trace[j].src /\ trace[i].idx = trace[j].idx - 1
       /\ \A k \in 1..(trace[j].src - 1) :
            \E i \in 1..(j - 1) :
              /\ trace[i].src = k
              /\ \/ trace[i].op = "eof" /\ trace[i].idx = readers[k].nlines
                 \/ trace[i].op = "write" /\ trace[i].res = "BrokenPipe"
  /\ stdout = OkWrites
  /\ \A i, j \in 1..Len(stdout) :
       i < j => \/ stdout[i].src < stdout[j].src
                \/ stdout[i].src = stdout[j].src /\ stdout[i].idx < stdout[j].idx

\* a run over a source of two lines and a source of one, all three shown, in
\* order
C3_Witness ==
  /\ pc = "done"
  /\ Len(readers) = 2
  /\ stdout = << [ src |-> 1, idx |-> 1 ], [ src |-> 1, idx |-> 2 ],
                 [ src |-> 2, idx |-> 1 ] >>

\* the step read a line and did nothing with it but count it as filtered out
CountedFilteredOut ==
  /\ stats' = [ stats EXCEPT !.lines_seen = @ + 1, !.filtered_out = @ + 1 ]
  /\ stdout' = stdout
  /\ trace' = Append(trace, [ op |-> "read", src |-> ridx, idx |-> pos + 1,
                              res |-> "" ])
  /\ last'.text = None
  /\ pipe' = pipe
  /\ diag' = diag
  /\ pc' = "loop"

\* C4: an event that was parsed is dropped by the level filter exactly when
\* level names are given and the event has no level or its level, in upper
\* case, is none of the names in upper case; with no name given none is
\* dropped.  A dropped event adds 1 to filtered_out (and the line 1 to
\* lines_seen) and nothing else: it is not written, and events_shown, the
\* level histogram and the time range stay.
C4_LevelFilterCaseInsensitive ==
  [][ (given' # given /\ last'.parsed.ok) =>
        /\ last'.disp = "level_filtered" <=> ~LevelRetained(cli.levels, last'.parsed.event)
        /\ last'.disp = "level_filtered" => CountedFilteredOut
        /\ Len(cli.levels) = 0 => last'.disp # "level_filtered" ]_vars

\* with --level warn,Error: an event of level INFO was dropped, then an
\* event of level error was shown
C4_Witness ==
  /\ cli.levels = << << "w", "a", "r", "n" >>, << "E", "r", "r", "o", "r" >> >>
  /\ cli.keys = << >> /\ ~cli.common
  /\ stats.filtered_out = 1
  /\ stats.events_shown = 1
  /\ stats.levels_seen = [ k \in { << "e", "r", "r", "o", "r" >> } |-> 1 ]
  /\ last.disp = "recorded"
  /\ last.event.level = Some(<< "e", "r", "r", "o", "r" >>)
  /\ last.wrote = "Ok"
  /\ Len(stdout) = 1

\* the named files that cannot be opened
Unopenable == { i \in 1..Len(sources.files) : ~sources.files[i].openable }

\* C5 as stated, the scope of the abort: when the run has ended because a
\* file could not be opened, the lines of the files named before it have
\* been read.
C5_EarlierSourcesConsumed ==
  (pc = "failed" /\ err = "open") =>
    \A k \in 1..(SetMin(Unopenable) - 1) :
      \A n \in 1..sources.files[k].nlines :
        \E i \in 1..Len(trace) :
          trace[i].op = "read" /\ trace[i].src = k /\ trace[i].idx = n

\* C5, amended: when one of the named files cannot be opened, main returns
\* the error of the first such file before any line of any file is read; the
\* file is not skipped, the run does not end well, nothing is written, no
\* line is counted and no statistics are printed, whatever files are named
\* before it.
C5_UnopenableSourceAbortsRun ==
  (sources.files # << >> /\ Unopenable # {} /\ pc # "start") =>
    /\ pc = "failed"
    /\ err = "open"
    /\ trace = << [ op |-> "open_failed", src |-> SetMin(Unopenable), idx |-> 0,
                    res |-> "" ] >>
    /\ readers = << >>
    /\ stdout = << >>
    /\ stats = NewStats
    /\ report = None
    /\ ~ENABLED Next

\* the run ended on the second file, which cannot be opened; the first has
\* lines, none of which was read
C5_Witness ==
  /\ pc = "failed"
  /\ err = "open"
  /\ Len(sources.files) = 2
  /\ sources.files[1].openable
  /\ sources.files[1].nlines = 2
  /\ ~sources.files[2].openable
  /\ stats.lines_seen = 0
  /\ trace # << >>

\* the number of lines of the inputs of the run
TotalLines ==
  IF sources.files = << >> THEN sources.stdin ELSE SumLines(sources.files)

\* a bound on the steps main has left: the lines not yet read of the current
\* and the later readers, the readers to leave, and the statistics
Budget ==
  IF pc = "start" THEN TotalLines + Len(sources.files) + 4
  ELSE IF pc = "loop"
       THEN SumLines(SubSeq(readers, ridx, Len(readers))) - pos
              + (Len(readers) - ridx) + 2
  ELSE IF pc = "stats" THEN 1
  ELSE 0

\* C6: as long as every line read was blank or failed to parse, nothing is
\* written, the counters are exactly lines_seen = lines read, parse_errors =
\* the non-blank lines read, events_shown = filtered_out = 0 with an empty
\* level histogram and time range, and the run has failed only if opening or
\* reading an input failed, never for a line that does not parse.  Every
\* step brings main closer to its return, and it returns Ok after all the
\* lines of the inputs were read, the statistics printed, if asked for,
\* being these counters.
C6_AllLinesUnparseable ==
  /\ [](given.good = 0 =>
          /\ stdout = << >>
          /\ \A i \in 1..Len(trace) : trace[i].op # "write"
          /\ stats = [ NewStats EXCEPT !.lines_seen = given.blank + given.bad,
                                       !.parse_errors = given.bad ]
          /\ err \in { "", "open", "read" }
          /\ pc = "failed" <=> err # ""
          /\ RunEnds
          /\ pc = "done" =>
               /\ stats.lines_seen = TotalLines
               /\ report = IF cli.stats \/ cli.stats_only THEN Some(stats) ELSE None)
  /\ [][ given'.good = 0 => Budget' < Budget ]_vars

\* a JSON-Lines run with --stats that read a blank line and two lines that
\* do not parse, nothing else, and ended well with its report
C6_Witness ==
  /\ cli.input_format = "Jsonl"
  /\ cli.stats
  /\ pc = "done"
  /\ err = ""
  /\ given.blank = 1
  /\ given.bad = 2
  /\ given.good = 0
  /\ TotalLines = 3
  /\ stdout = << >>
  /\ report = Some([ NewStats EXCEPT !.lines_seen = 3, !.parse_errors = 2 ])

\* an event with no core field and no remaining field
EmptyEvent(ev) ==
  /\ ev.timestamp = None
  /\ ev.level = None
  /\ ev.message = None
  /\ DOMAIN ev.fields = {}

\* C7: with -k or -c, an event that passed the level filter and has no core
\* field and no remaining field after the projection, and only such an
\* event, is dropped as filtered out: filtered_out grows by 1 (lines_seen by
\* 1 for the line), nothing is written, and events_shown, the level
\* histogram and the time range stay.  Without -k and -c no event is dropped
\* for being empty.
C7_EmptyProjectionFilteredOut ==
  [][ (given' # given /\ last'.parsed.ok /\ last'.disp # "level_filtered") =>
        /\ last'.disp = "key_filtered" <=>
             (cli.common \/ cli.keys # << >>) /\ EmptyEvent(last'.event)
        /\ last'.disp = "key_filtered" =>
             /\ CountedFilteredOut
             /\ stats'.events_shown = stats.events_shown
             /\ stats'.levels_seen = stats.levels_seen
             /\ stats'.start_time = stats.start_time
             /\ stats'.end_time = stats.end_time ]_vars

\* with -c: the one line of the run had fields but no core field, and was
\* counted as filtered out, nothing shown
C7_Witness ==
  /\ cli.common
  /\ cli.levels = << >>
  /\ pc = "done"
  /\ last.disp = "key_filtered"
  /\ DOMAIN last.parsed.event.fields # {}
  /\ EmptyEvent(last.event)
  /\ stats.lines_seen = 1
  /\ stats.filtered_out = 1
  /\ stats.events_shown = 0
  /\ stdout = << >>

PartInProjection(p) == p.key \in ProjectionKeys

\* C8: with -k or -c, the event left by the projection exposes exactly the
\* keys of K that the parsed event had, as a core slot or as a field; the
\* line written for it (none is written with --stats-only) holds these keys,
\* with the texts they had before the projection and in the same order, and
\* no other key.
C8_ProjectionExposesExactlyK ==
  ((cli.common \/ cli.keys # << >>) /\ last.disp \in { "recorded", "key_filtered" }) =>
    /\ KeysOf(last.event) = KeysOf(last.parsed.event) \cap ProjectionKeys
    /\ DefaultFormatParts(last.event)
         = SelectSeq(DefaultFormatParts(last.parsed.event), PartInProjection)
    /\ (last.disp = "recorded" /\ ~cli.stats_only) =>
         /\ last.text = Some(FormatEvent(cli.output_format, last.event))
         /\ cli.output_format = "Default" =>
              last.text = Some(JoinParts(SelectSeq(DefaultFormatParts(last.parsed.event),
                                                  PartInProjection),
                                         << "=" >>, << " " >>))

\* with -k level,host: the line lvl=INFO host=h n=42 was shown as its level
\* and its host, without n
C8_Witness ==
  /\ cli.keys = << KeyLevel, << "h", "o", "s", "t" >> >>
  /\ ~cli.common
  /\ last.disp = "recorded"
  /\ last.wrote = "Ok"
  /\ DOMAIN last.parsed.event.fields = { << "h", "o", "s", "t" >>, << "n" >> }
  /\ last.parsed.event.level = Some(<< "I", "N", "F", "O" >>)
  /\ KeysOf(last.event) = { KeyLevel, << "h", "o", "s", "t" >> }
  /\ last.text = Some(<< "l", "e", "v", "e", "l", "=", "\"", "I", "N", "F", "O", "\"", " ", "h", "o", "s", "t", "=", "\"", "h", "\"" >>)

\* a line with no key=value token: nowhere in it a key (a letter or an
\* underscore, then letters, digits, underscores and dashes) is followed by
\* an equals sign and a character that is not white space
NoLogfmtToken(s) ==
  ~\E i \in 1..Len(s), j \in 1..Len(s) :
      /\ i <= j
      /\ IsKeyStart(s[i])
      /\ \A k \in (i + 1)..j : IsKeyChar(s[k])
      /\ j + 2 <= Len(s)
      /\ s[j + 1] = "="
      /\ ~IsSpace(s[j + 2])

\* C9: under the logfmt and the syslog format every line that is not blank
\* is parsed to an event, so that parse_errors stays 0 and no diagnostic is
\* printed; a logfmt line has a key=value token exactly when its event is
\* not the empty one (no core field, zero fields); a syslog line that the
\* pattern does not match, as every line without a colon, yields the event
\* whose message is the whole line, held in the message slot and under the
\* key "message", and that has nothing else.
C9_LogfmtAndSyslogNeverFail ==
  /\ cli.input_format \in { "Logfmt", "Syslog" }
  /\ stats.parse_errors = 0
  /\ given.bad = 0
  /\ diag = 0
  /\ last.disp \notin { "none", "blank" } =>
       /\ last.parsed.ok
       /\ last.parsed.err = ""
       /\ last.disp = "recorded"
       /\ cli.input_format = "Logfmt" =>
            (NoLogfmtToken(last.line) <=> last.parsed.event = NewEvent)
       /\ cli.input_format = "Syslog" =>
            /\ ~SyslogMatch(last.line).ok =>
                 last.parsed.event =
                   set_field([ NewEvent EXCEPT !.message = Some(last.line) ],
                             KeyMessage, FvString(last.line))
            /\ (\A i \in 1..Len(last.line) : last.line[i] # ":") =>
                 ~SyslogMatch(last.line).ok

\* the syslog run whose line has a timestamp, a host and a process but no
\* colon after them: it ended well, the line shown as its own message
C9_Witness ==
  /\ cli.input_format = "Syslog"
  /\ pc = "done"
  /\ last.line = << "O", "c", "t", " ", "1", "1", " ", "2", "2", ":", "1", "4", ":", "1", "5", " ", "h", " ", "s", "u", " ", "m" >>
  /\ ~SyslogMatch(last.line).ok
  /\ last.parsed.event.message = Some(last.line)
  /\ stats.parse_errors = 0
  /\ stats.events_shown = 1
  /\ last.wrote = "Ok"

\* C10: parse_field_value gives Null for the token null and no other,
\* Boolean for true and false and no other, Number for every other token
\* that parses as an i64 or as an f64, with the value the token denotes (the
\* integer first: -0 is the integer 0, not the float -0.0), and otherwise
\* String holding the token as it is; so null, true and false are
\* never a String, and True, TRUE, False, Null, NULL and hello are the
\* String of themselves.
C10_CoerceFirstMatchWins ==
  pc = "coerced" =>
    /\ fout.t \in { "Null", "Boolean", "Number", "String" }
    /\ fout.t = "Null" <=> fin = StrNull
    /\ fout.t = "Boolean" <=> fin \in { StrTrue, StrFalse }
    /\ fout.t = "Boolean" => fout = FvBoolean(fin = StrTrue)
    /\ fout.t = "Number" <=>
         fin \notin { StrNull, StrTrue, StrFalse } /\ (IsI64(fin) \/ IsF64(fin))
    /\ fout.t = "Number" =>
         IF IsI64(fin)
         THEN /\ fout = I64AsF64(fin)
              /\ [ fout EXCEPT !.neg = F64Value(fin).neg ] = F64Value(fin)
              /\ fout.neg # F64Value(fin).neg => fout.int = << "0" >>
         ELSE fout = F64Value(fin)
    /\ fout.t = "String" => fout = FvString(fin)
    /\ fin \in { << "T", "r", "u", "e" >>, << "T", "R", "U", "E" >>, << "F", "a", "l", "s", "e" >>, << "N", "u", "l", "l" >>, << "N", "U", "L", "L" >>, << "h", "e", "l", "l", "o" >>, << "n", "u", "l", "l", "s" >>, << " ", "n", "u", "l", "l" >>, << "t", "r", "u", "e", " " >> } =>
         fout = FvString(fin)
    /\ fin = << "4", "2" >> => fout = FvNumber("fin", FALSE, << "4", "2" >>, << >>)
    /\ fin = << "4", "2", ".", "5" >> => fout = FvNumber("fin", FALSE, << "4", "2" >>, << "5" >>)
    /\ fin = << "-", "4", "2" >> => fout = FvNumber("fin", TRUE, << "4", "2" >>, << >>)

\* the token True was classified: it is the String True
C10_Witness ==
  /\ pc = "coerced"
  /\ fin = << "T", "r", "u", "e" >>
  /\ fout = FvString(<< "T", "r", "u", "e" >>)

\* ------------------------------------------- the parsers and formatters alone

\* the largest priority of the syslog lines given to the parser on its own
MaxPriority == 191

SyslogRests ==
  { << "O", "c", "t", " ", "1", "1", " ", "2", "2", ":", "1", "4", ":", "1", "5", " ", "m", "y", "m", "a", "c", "h", "i", "n", "e", " ", "s", "u", ":", " ", "t", "e", "s", "t" >>,
    << "O", "c", "t", " ", " ", "1", " ", "0", "0", ":", "0", "0", ":", "0", "1", " ", "h", " ", "p", "[", "1", "2", "]", ":", " ", "m" >> }

PriorityPrefix(p) == << "<" >> \o NatToDigits(p) \o << ">" >>

\* syslog lines with each priority, with a priority written with a leading
\* zero, and without priority
PriorityLines ==
  { PriorityPrefix(p) \o rest : p \in 0..MaxPriority, rest \in SyslogRests }
    \cup { << "<", "0", "3", "4", ">" >> \o rest : rest \in SyslogRests }
    \cup SyslogRests

\* well-formed logfmt tokens: a key, =, and a bareword or a quoted value;
\* among the values a number, a keyword, a timestamp, a bareword with a
\* double quote and values with a backslash
RoundTripTokens ==
  { k \o << "=" >> \o v :
      k \in { << "a" >>, << "m", "s", "g" >>, << "t", "s" >> },
      v \in { << "1" >>, << "x" >>, << "t", "r", "u", "e" >>, << "T", "1" >>, << "x", "\"", "y" >>, << "a", "\\", "b" >>,
              << "\"", "\"" >>, << "\"", "x", " ", "y", "\"" >>, << "\"", "a", "\\", "b", "\"" >>, << "\"", "4", "2", "\"" >> } }

\* the lines of one or two well-formed tokens
RoundTripLines ==
  RoundTripTokens
    \cup { t \o << " " >> \o u : t \in RoundTripTokens, u \in RoundTripTokens }

\* logfmt lines of one numeric token: integers in and beyond the i64 range,
\* integral values written with a fraction or an exponent, and fractions
NumberLines ==
  { << "n", "=" >> \o t :
      t \in { << "4", "2" >>, << "4", "2", ".", "0" >>, << "-", "7" >>, << "-", "0", ".", "0" >>, << "1", "e", "3" >>, << "0", ".", "5" >>, << "4", "2", ".", "5" >>,
              << "9", "2", "2", "3", "3", "7", "2", "0", "3", "6", "8", "5", "4", "7", "7", "5", "8", "0", "7" >>, << "-", "9", "2", "2", "3", "3", "7", "2", "0", "3", "6", "8", "5", "4", "7", "7", "5", "8", "0", "8" >>,
              << "1", "e", "1", "9" >>, << "-", "1", "e", "1", "9" >>, << "1", "8", "4", "4", "6", "7", "4", "4", "0", "7", "3", "7", "0", "9", "5", "5", "1", "6", "1", "6" >> } }

\* the lines given to a parser on its own
ParseLines(f) ==
  WideLines(f) \cup
    (IF f = "Syslog" THEN PriorityLines
     ELSE IF f = "Logfmt" THEN RoundTripLines \cup NumberLines
     ELSE {})

\* one line, parsed, formatted and parsed again
InitParse ==
  /\ cli \in { DefaultCli(f) : f \in InputFormats }
  /\ sources = [ files |-> << >>, stdin |-> 0 ]
  /\ lineset = "parse"
  /\ pc = "parse"
  /\ fin \in ParseLines(cli.input_format)
  /\ InitRest

\* LogParser::parse(fin)
ParseStep ==
  /\ pc = "parse"
  /\ last' = [ last EXCEPT !.line = fin,
                           !.parsed = ParseLine(cli.input_format, fin) ]
  /\ pc' = IF last'.parsed.ok THEN "parsed" ELSE "failed"
  /\ UNCHANGED << cli, sources, lineset, readers, ridx, pos, stats, stdout, pipe,
                  report, diag, err, trace, given, fin, fout >>

\* DefaultFormatter::format of the parsed event
FormatStep ==
  /\ pc = "parsed"
  /\ last' = [ last EXCEPT !.text = Some(DefaultFormat(last.parsed.event)) ]
  /\ pc' = "formatted"
  /\ UNCHANGED << cli, sources, lineset, readers, ridx, pos, stats, stdout, pipe,
                  report, diag, err, trace, given, fin, fout >>

\* LogfmtParser::parse of the line formatted from a logfmt event; its event
\* is kept in last.event
ReparseStep ==
  /\ pc = "formatted"
  /\ cli.input_format = "Logfmt"
  /\ last' = [ last EXCEPT !.event = LogfmtParse(last.text[1]).event ]
  /\ pc' = "reparsed"
  /\ UNCHANGED << cli, sources, lineset, readers, ridx, pos, stats, stdout, pipe,
                  report, diag, err, trace, given, fin, fout >>

NextParse ==
  \/ ParseStep
  \/ FormatStep
  \/ ReparseStep

SpecParse == InitParse /\ [][NextParse]_vars

\* ------------------------------------------------------ the claims, continued

\* the number a field holds, as a natural
NumberField(ev, key, n) ==
  /\ key \in DOMAIN ev.fields
  /\ ev.fields[key] = FvNumber("fin", FALSE, NatToDigits(n), << >>)

\* the priorities p of 0..MaxPriority that the line starts with, as <p>
\* before one of the priority-less lines
LinePriorities(line) ==
  { DigitsToNat(SubSeq(line, 2, k - 1)) :
      k \in { k \in 3..5 :
                /\ k < Len(line)
                /\ line[1] = "<"
                /\ line[k] = ">"
                /\ \A i \in 2..(k - 1) : line[i] \in Digits
                /\ SubSeq(line, k + 1, Len(line)) \in SyslogRests
                /\ DigitsToNat(SubSeq(line, 2, k - 1)) <= MaxPriority } }

\* C11: a syslog line that matches the grammar and starts with the priority
\* p, 0 <= p <= MaxPriority, is parsed to an event whose level is the name of
\* severity p mod 8 in the table EMERGENCY, ALERT, CRITICAL, ERROR, WARNING,
\* NOTICE, INFO, DEBUG and whose fields priority, facility and severity are
\* the numbers p, p div 8 and p mod 8; a matching line without priority is
\* parsed to an event without level and without these three fields.
C11_SyslogPriorityDecoded ==
  (cli.input_format = "Syslog" /\ pc # "parse") =>
    /\ \A p \in LinePriorities(last.line) :
         /\ last.parsed.ok
         /\ last.parsed.event.level = Some(SeverityNames[(p % 8) + 1])
         /\ NumberField(last.parsed.event, KeyPriority, p)
         /\ NumberField(last.parsed.event, KeyFacility, p \div 8)
         /\ NumberField(last.parsed.event, KeySeverity, p % 8)
         /\ 8 * (p \div 8) + (p % 8) = p
    /\ last.line \in SyslogRests =>
         /\ last.parsed.ok
         /\ last.parsed.event.level = None
         /\ DOMAIN last.parsed.event.fields
              \cap { KeyPriority, KeyFacility, KeySeverity } = {}

\* the line of priority 34 is parsed: facility 4, severity 2, level CRITICAL
C11_Witness ==
  /\ cli.input_format = "Syslog"
  /\ pc = "parsed"
  /\ last.line = << "<", "3", "4", ">", "O", "c", "t", " ", "1", "1", " ", "2", "2", ":", "1", "4", ":", "1", "5", " ", "m", "y", "m", "a", "c", "h", "i", "n", "e", " ", "s", "u", ":", " ", "t", "e", "s", "t" >>
  /\ last.parsed.event.level = Some(<< "C", "R", "I", "T", "I", "C", "A", "L" >>)
  /\ NumberField(last.parsed.event, KeyFacility, 4)
  /\ NumberField(last.parsed.event, KeySeverity, 2)
  /\ NumberField(last.parsed.event, KeyPriority, 34)
  /\ LinePriorities(last.line) = { 34 }

\* ------------------------------------------------ extract_core_fields alone

\* the largest number of fields of the events given to extract_core_fields
MaxRawKeys == 3

RawKeys ==
  { KeyTimestamp, << "t", "s" >>, KeyLevel, << "l", "v", "l" >>, KeySeverity, KeyMessage,
    << "m", "s", "g" >>, KeyHostname }

RawValues ==
  { FvString(<< "T", "1" >>), FvString(<< "x" >>), FvNumber("fin", FALSE, << "2" >>, << >>) }

\* the event as SyslogParser::parse has populated it when it calls
\* extract_core_fields
SyslogRaw(pri, msg) ==
  set_field(
    [ set_field(
        set_field(SyslogPriority(NewEvent, pri), KeyTimestamp, FvString(<< "O", "c", "t", " ", "1", "1", " ", "2", "2", ":", "1", "4", ":", "1", "5" >>)),
        KeyHostname, FvString(<< "h" >>))
      EXCEPT !.message = Some(msg) ],
    KeyMessage, FvString(msg))

\* the events the parsers hand to extract_core_fields: the logfmt and JSON
\* parsers fill the field map only, the syslog parser also the level and
\* message slots
RawEvents ==
  { [ NewEvent EXCEPT !.fields = f ] :
      f \in UNION { [ K -> RawValues ] :
                      K \in { S \in SUBSET RawKeys : Cardinality(S) <= MaxRawKeys } } }
    \cup { SyslogRaw(pri, << "m" >>) : pri \in { None, Some(<< "3", "4" >>), Some(<< "1", "3" >>) } }

InitExtract ==
  /\ cli = DefaultCli("Logfmt")
  /\ sources = [ files |-> << >>, stdin |-> 0 ]
  /\ lineset = "raw"
  /\ pc = "extract"
  /\ fin = << >>
  /\ readers = << >>
  /\ ridx = 0
  /\ pos = 0
  /\ stats = NewStats
  /\ stdout = << >>
  /\ pipe = "open"
  /\ report = None
  /\ diag = 0
  /\ err = ""
  /\ trace = << >>
  /\ \E ev \in RawEvents :
       last = [ src |-> 0, idx |-> 0, line |-> << >>, disp |-> "none",
                parsed |-> NotParsed, event |-> ev, text |-> None, wrote |-> "" ]
  /\ given = NoneGiven
  /\ fout = FvNull

\* Event::extract_core_fields on last.event; the result is last.parsed.event
ExtractStep ==
  /\ pc = "extract"
  /\ last' = [ last EXCEPT !.parsed = ParseOk(extract_core_fields(last.event)) ]
  /\ pc' = "extracted"
  /\ UNCHANGED << cli, sources, lineset, readers, ridx, pos, stats, stdout, pipe,
                  report, diag, err, trace, given, fin, fout >>

SpecExtract == InitExtract /\ [][ExtractStep]_vars

CoreSlots == { "timestamp", "level", "message" }

AliasLists ==
  [ timestamp |-> TimestampAliases, level |-> LevelAliases,
    message |-> MessageAliases ]

\* the alias at position i of the list is the first one the field map has
WinsAt(fields, al, i) ==
  /\ al[i] \in DOMAIN fields
  /\ \A j \in 1..(i - 1) : al[j] \notin DOMAIN fields

\* the aliases after position i that the field map has are still there,
\* with their values
LowerAliasesStay(raw, out, al, i) ==
  \A j \in (i + 1)..Len(al) :
    al[j] \in DOMAIN raw.fields =>
      /\ al[j] \in DOMAIN out.fields
      /\ out.fields[al[j]] = raw.fields[al[j]]

\* a value that can fill the slot: any value for level and message, a string
\* that parses as a timestamp for timestamp
FillsSlot(slot, v) ==
  slot = "timestamp" => (v.t = "String" /\ IsSome(parse_timestamp(v.s)))

SlotFilledFrom(slot, v) ==
  IF slot = "timestamp" THEN parse_timestamp(v.s)
  ELSE Some(FieldValueAsString(v))

\* the keys that are no alias of any core slot keep their values, and no
\* key is added
OtherKeysKept(raw, out) ==
  /\ DOMAIN out.fields \subseteq DOMAIN raw.fields
  /\ \A k \in DOMAIN raw.fields :
       (\A slot \in CoreSlots : k \notin SeqToSet(AliasLists[slot])) =>
         /\ k \in DOMAIN out.fields
         /\ out.fields[k] = raw.fields[k]

C13_NoKeyEmittedTwice ==
  (pc \in { "formatted", "reparsed" }) =>
    /\ last.text = Some(DefaultFormat(last.parsed.event))
    /\ \A i, j \in 1..Len(DefaultFormatParts(last.parsed.event)) :
         i # j => DefaultFormatParts(last.parsed.event)[i].key
                    # DefaultFormatParts(last.parsed.event)[j].key

\* C14: a logfmt line made only of well-formed key="value" and key=bareword
\* tokens, parsed, formatted by the default formatter and parsed again, gives
\* the event of the first parse: the same core slots and the same fields
\* with the same values.
C14_LogfmtRoundTrip ==
  (pc = "reparsed" /\ last.line \in RoundTripLines) =>
    /\ last.parsed.ok
    /\ last.text = Some(DefaultFormat(last.parsed.event))
    /\ last.event = last.parsed.event

\* the decimal digits of an integral number, with its sign
IntegerDigits(n) ==
  (IF n.neg /\ n.int # << "0" >> THEN << "-" >> ELSE << >>) \o n.int

\* C15: in the line of the default formatter every field that is a Number
\* with an integral value n is written as the decimal digits of n, without
\* fraction part, whatever the magnitude of n.
C15_IntegralNumberAsDigits ==
  (pc \in { "formatted", "reparsed" }) =>
    /\ last.text = Some(DefaultFormat(last.parsed.event))
    /\ \A i \in 1..Len(DefaultFormatParts(last.parsed.event)) :
         LET part == DefaultFormatParts(last.parsed.event)[i]
             IsNumber(fields) ==
               /\ part.key \in DOMAIN fields
               /\ fields[part.key].t = "Number"
               /\ fields[part.key].kind = "fin"
               /\ fields[part.key].frac = << >>
         IN  (part.text[1] # "\"" /\ IsNumber(last.parsed.event.fields)) =>
               part.text = IntegerDigits(last.parsed.event.fields[part.key])

\* C16: with --stats-only no line is written and no write is attempted, the
\* whole input is read, and the events that pass the level and key filters
\* are recorded all the same: events_shown is the number of retained events
\* and levels_seen counts, per level, the retained events recorded with that
\* level.  The two counts are those of the lines read under the filters,
\* whether --stats-only is given or not.
C16_StatsOnlyRecordsAll ==
  /\ stats.events_shown = given.kept
  /\ stats.levels_seen = given.levels
  /\ cli.stats_only =>
       /\ stdout = << >>
       /\ last.text = None
       /\ \A i \in 1..Len(trace) : trace[i].op # "write"
       /\ pipe = "open"
       /\ pc = "done" => stats.lines_seen = TotalLines

\* a run with --stats-only and both filters that ended: of two events one
\* passed the filters and is counted with its level, nothing is written
C16_Witness ==
  /\ pc = "done"
  /\ cli.stats_only
  /\ Len(cli.levels) > 0
  /\ given.good = 2
  /\ given.kept = 1
  /\ stats.events_shown = 1
  /\ stats.filtered_out = 1
  /\ stats.levels_seen = (<< "e", "r", "r", "o", "r" >> :> 1)
  /\ stdout = << >>

\* the four counters of the statistics
Counters(st) ==
  << st.lines_seen, st.events_shown, st.parse_errors, st.filtered_out >>

\* C17: at every point of a run lines_seen = events_shown + parse_errors +
\* filtered_out + the number of whitespace-only lines read; a step that
\* reads a line adds exactly 1 to lines_seen and exactly 1 to at most one of
\* events_shown, parse_errors and filtered_out, the others staying as they
\* are; a whitespace-only line adds to lines_seen only and is not given to
\* the parser; no step lowers a counter; with no line read all four
\* counters are 0.
C17_LineAccounting ==
  /\ [](stats.lines_seen = stats.events_shown + stats.parse_errors
                             + stats.filtered_out + given.blank)
  /\ [](stats.lines_seen = given.blank + given.bad + given.good)
  /\ []((given.blank + given.bad + given.good = 0) =>
          Counters(stats) = << 0, 0, 0, 0 >>)
  /\ [][ /\ \A i \in 1..4 : Counters(stats')[i] >= Counters(stats)[i]
         /\ IF given' # given
            THEN /\ stats'.lines_seen = stats.lines_seen + 1
                 /\ (stats'.events_shown - stats.events_shown)
                      + (stats'.parse_errors - stats.parse_errors)
                      + (stats'.filtered_out - stats.filtered_out) \in { 0, 1 }
                 /\ TrimIsEmpty(last'.line) <=> given'.blank = given.blank + 1
                 /\ TrimIsEmpty(last'.line) =>
                      /\ stats' = [ stats EXCEPT !.lines_seen = @ + 1 ]
                      /\ last'.parsed = NotParsed
                      /\ last'.disp = "blank"
            ELSE Counters(stats') = Counters(stats) ]_vars

\* a run that ended after a whitespace-only line, a line that does not
\* parse and a line whose event is shown
C17_Witness ==
  /\ pc = "done"
  /\ given.blank = 1
  /\ stats = [ stats EXCEPT !.lines_seen = 3, !.events_shown = 1,
                            !.parse_errors = 1, !.filtered_out = 0 ]

\* C18: a line the parser accepts goes through the level filter, then the
\* key projection, then the statistics, then the formatter.  The level
\* filter decides on the level of the parsed event, whatever the key list:
\* an event it drops is counted as filtered out and is neither projected nor
\* recorded nor formatted nor written; an event it retains is projected, and
\* if the projection is not dropped, the projected event is the one
\* recorded in the statistics and, unless only the statistics are wanted,
\* formatted and written.
C18_StageOrder ==
  [][ (given' # given /\ last'.parsed.ok) =>
        IF ~LevelRetained(cli.levels, last'.parsed.event)
        THEN /\ last'.disp = "level_filtered"
             /\ last'.event = last'.parsed.event
             /\ stats' = [ stats EXCEPT !.lines_seen = @ + 1, !.filtered_out = @ + 1 ]
             /\ last'.text = None
             /\ stdout' = stdout
             /\ trace' = Append(trace, [ op |-> "read", src |-> ridx, idx |-> pos + 1,
                                         res |-> "" ])
        ELSE /\ last'.disp \in { "key_filtered", "recorded" }
             /\ IF cli.common \/ Len(cli.keys) > 0
                THEN KeysOf(last'.event) = KeysOf(last'.parsed.event) \cap ProjectionKeys
                ELSE last'.event = last'.parsed.event
             /\ last'.disp = "recorded" =>
                  /\ stats' = record_event([ stats EXCEPT !.lines_seen = @ + 1 ],
                                           last'.event)
                  /\ cli.stats_only => last'.text = None
                  /\ ~cli.stats_only =>
                       /\ last'.text = Some(FormatEvent(cli.output_format, last'.event))
                       /\ trace'[Len(trace')].op = "write" ]_vars

\* levels {ERROR} and keys {message}: the logfmt event of level error is
\* retained and written as its message alone, and no level is counted
C18_Witness ==
  /\ cli.input_format = "Logfmt"
  /\ cli.levels = << << "E", "R", "R", "O", "R" >> >>
  /\ cli.keys = << << "m", "e", "s", "s", "a", "g", "e" >> >>
  /\ last.parsed.event.level = Some(<< "e", "r", "r", "o", "r" >>)
  /\ last.disp = "recorded"
  /\ last.event = [ NewEvent EXCEPT !.message = Some(<< "a", " ", "b" >>) ]
  /\ last.text = Some(<< "m", "e", "s", "s", "a", "g", "e", "=", "\"", "a", " ", "b", "\"" >>)
  /\ last.wrote = "Ok"
  /\ stats.events_shown = 1
  /\ stats.levels_seen = << >>

\* C19: the time range of the statistics is the smallest and the largest
\* timestamp of the events recorded so far: start_time and end_time are
\* unset exactly when no recorded event had a timestamp, and otherwise both
\* set, start_time to the smallest and end_time to the largest, so
\* start_time <= end_time; no step raises start_time or lowers end_time or
\* unsets one of them; a step that records no event (a blank line, a line
\* that does not parse, an event a filter drops, any other step) leaves both.
C19_TimeRangeIsMinMax ==
  /\ [](IF given.times = {}
        THEN stats.start_time = None /\ stats.end_time = None
        ELSE /\ stats.start_time = Some(SetMin(given.times))
             /\ stats.end_time = Some(SetMax(given.times))
             /\ stats.start_time[1] <= stats.end_time[1])
  /\ [][ /\ IsSome(stats.start_time) =>
              (IsSome(stats'.start_time) /\ stats'.start_time[1] <= stats.start_time[1])
         /\ IsSome(stats.end_time) =>
              (IsSome(stats'.end_time) /\ stats'.end_time[1] >= stats.end_time[1])
         /\ (given' = given \/ last'.disp # "recorded") =>
              /\ stats'.start_time = stats.start_time
              /\ stats'.end_time = stats.end_time
              /\ given'.times = given.times ]_vars

\* a JSON Lines run that ended: events of instants 2 and 1 were recorded in
\* that order and a third line did not parse; the range is 1 to 2
C19_Witness ==
  /\ pc = "done"
  /\ cli.input_format = "Jsonl"
  /\ stats.events_shown = 2
  /\ stats.parse_errors = 1
  /\ stdout = << [ src |-> 1, idx |-> 1 ], [ src |-> 1, idx |-> 2 ] >>
  /\ last.disp = "parse_error"
  /\ given.times = { 1, 2 }
  /\ stats.start_time = Some(1)
  /\ stats.end_time = Some(2)

\* C20: with no key filter and no level filter, a line parsed to the event
\* without core field and without field is not filtered out: the step adds 1
\* to lines_seen and to events_shown and to nothing else, and unless only
\* the statistics are wanted one line is written for it, which under the
\* default format is the empty string.
C20_EmptyEventIsShown ==
  [][ ( /\ given' # given
        /\ Len(cli.levels) = 0
        /\ Len(cli.keys) = 0
        /\ ~cli.common
        /\ last'.parsed.ok
        /\ EmptyEvent(last'.parsed.event) ) =>
        /\ last'.disp = "recorded"
        /\ stats' = [ stats EXCEPT !.lines_seen = @ + 1, !.events_shown = @ + 1 ]
        /\ ~cli.stats_only =>
             /\ cli.output_format = "Default" => last'.text = Some(<< >>)
             /\ IsSome(last'.text)
             /\ trace' = trace \o
                  << [ op |-> "read", src |-> ridx, idx |-> pos + 1, res |-> "" ],
                     [ op |-> "write", src |-> ridx, idx |-> pos + 1,
                       res |-> last'.wrote ] >>
             /\ last'.wrote = "Ok" =>
                  stdout' = Append(stdout, [ src |-> ridx, idx |-> pos + 1 ]) ]_vars

\* the logfmt line without token, under no filter: shown, written as the
\* empty line
C20_Witness ==
  /\ cli = DefaultCli("Logfmt")
  /\ last.line = << "h", "e", "l", "l", "o", " ", "w", "o", "r", "l", "d" >>
  /\ EmptyEvent(last.parsed.event)
  /\ last.disp = "recorded"
  /\ last.text = Some(<< >>)
  /\ last.wrote = "Ok"
  /\ stats.events_shown = 1
  /\ stats.filtered_out = 0
  /\ stats.parse_errors = 0
  /\ stdout = << [ src |-> last.src, idx |-> last.idx ] >>

\* the writes of the run that failed, with a broken pipe or otherwise
FailedWrites ==
  { i \in 1..Len(trace) : trace[i].op = "write" /\ trace[i].res # "Ok" }

\* the count the histogram st holds for the level l
LevelCount(st, l) ==
  IF l \in DOMAIN st.levels_seen THEN st.levels_seen[l] ELSE 0

\* C21: the event is recorded before its line is written: at every point of
\* a run the lines written to standard output are at most events_shown, and
\* unless only the statistics are wanted events_shown is these lines plus
\* the writes that failed, so that both are equal at the end of a run with
\* no failed write; a step whose write fails with a broken pipe leaves
\* standard output as it was and has recorded the event: events_shown is 1
\* more, the count of the event's level is 1 more, and the time range holds
\* the event's time.
C21_RecordedBeforeWritten ==
  /\ [](Len(stdout) <= stats.events_shown)
  /\ [](~cli.stats_only =>
          stats.events_shown = Len(stdout) + Cardinality(FailedWrites))
  /\ []((pc = "done" /\ ~cli.stats_only /\ FailedWrites = {}) =>
          Len(stdout) = stats.events_shown)
  /\ [][ (given' # given /\ last'.wrote = "BrokenPipe") =>
           /\ last'.disp = "recorded"
           /\ stdout' = stdout
           /\ pipe' = "broken"
           /\ trace'[Len(trace')] = [ op |-> "write", src |-> last'.src,
                                      idx |-> last'.idx, res |-> "BrokenPipe" ]
           /\ stats' = [ record_event(stats, last'.event) EXCEPT !.lines_seen = @ + 1 ]
           /\ stats'.events_shown = stats.events_shown + 1
           /\ stats'.events_shown > Len(stdout')
           /\ IsSome(last'.event.level) =>
                LevelCount(stats', last'.event.level[1])
                  = LevelCount(stats, last'.event.level[1]) + 1
           /\ IsSome(last'.event.timestamp) =>
                /\ IsSome(stats'.start_time) /\ IsSome(stats'.end_time)
                /\ stats'.start_time[1] <= last'.event.timestamp[1]
                /\ last'.event.timestamp[1] <= stats'.end_time[1]
                /\ ~IsSome(stats.start_time) =>
                     /\ stats'.start_time = last'.event.timestamp
                     /\ stats'.end_time = last'.event.timestamp ]_vars

\* a run that ended after one line was written and the write of the next
\* line, an event with a level and a time, met a broken pipe: two events
\* are counted and one line is out
C21_Witness ==
  /\ pc = "done"
  /\ ~cli.stats_only
  /\ pipe = "broken"
  /\ last.wrote = "BrokenPipe"
  /\ last.disp = "recorded"
  /\ IsSome(last.event.level)
  /\ IsSome(last.event.timestamp)
  /\ Len(stdout) = 1
  /\ stats.events_shown = 2
  /\ LevelCount(stats, last.event.level[1]) >= 1
  /\ IsSome(stats.end_time)
  /\ stats.end_time[1] >= last.event.timestamp[1]

====
